---------------------------- MODULE Spec2Model ----------------------------
(***************************************************************************)
(* A model of the Twig formatter of src/extension.js (class TwigFormatter). *)
(*                                                                         *)
(* A JavaScript string is modelled as a sequence of one-character strings, *)
(* a document as the sequence of its lines (text.split('\n')).  Regular    *)
(* expressions of the source are transcribed as syntax trees and matched   *)
(* by the operators of the first section.                                  *)
(***************************************************************************)
EXTENDS Integers, Sequences, FiniteSets, TLC

(***************************************************************************)
(* Characters and strings                                                  *)
(***************************************************************************)
Lower == {"a","b","c","d","e","f","g","h","i","j","k","l","m",
          "n","o","p","q","r","s","t","u","v","w","x","y","z"}

Upper == {"A","B","C","D","E","F","G","H","I","J","K","L","M",
          "N","O","P","Q","R","S","T","U","V","W","X","Y","Z"}

Digit == {"0","1","2","3","4","5","6","7","8","9"}

\* \s of a JavaScript regular expression, and the characters trim() strips
WhiteSpace == {" ", "\t", "\n", "\r", "\f"}

\* the characters '.' does not match
LineTerminator == {"\n", "\r"}

\* \w
WordChar == Lower \cup Upper \cup Digit \cup {"_"}

Quotes == {"'", "\""}

\* [a-zA-Z]
Letter == Lower \cup Upper

\* [a-zA-Z0-9]
LetterDigit == Lower \cup Upper \cup Digit

\* [a-zA-Z0-9-]
LetterDigitDash == Lower \cup Upper \cup Digit \cup {"-"}

\* [a-zA-Z\-]
LetterDash == Lower \cup Upper \cup {"-"}

\* [\w\-]
WordDash == WordChar \cup {"-"}

\* String.prototype.toLowerCase on one character (the /i flag)
ToLower(c) ==
  CASE c = "A" -> "a" [] c = "B" -> "b" [] c = "C" -> "c" [] c = "D" -> "d"
    [] c = "E" -> "e" [] c = "F" -> "f" [] c = "G" -> "g" [] c = "H" -> "h"
    [] c = "I" -> "i" [] c = "J" -> "j" [] c = "K" -> "k" [] c = "L" -> "l"
    [] c = "M" -> "m" [] c = "N" -> "n" [] c = "O" -> "o" [] c = "P" -> "p"
    [] c = "Q" -> "q" [] c = "R" -> "r" [] c = "S" -> "s" [] c = "T" -> "t"
    [] c = "U" -> "u" [] c = "V" -> "v" [] c = "W" -> "w" [] c = "X" -> "x"
    [] c = "Y" -> "y" [] c = "Z" -> "z" [] OTHER -> c

Min(S) == CHOOSE x \in S : \A y \in S : x <= y

Max(S) == CHOOSE x \in S : \A y \in S : x >= y

\* s.slice(a - 1, b): the characters a..b of s (1-based, inclusive)
Slice(s, a, b) == IF a > b THEN << >> ELSE SubSeq(s, a, b)

\* s.trim()
RECURSIVE TrimLeft(_)
TrimLeft(s) ==
  IF s # << >> /\ Head(s) \in WhiteSpace THEN TrimLeft(Tail(s)) ELSE s

RECURSIVE TrimRight(_)
TrimRight(s) ==
  IF s # << >> /\ s[Len(s)] \in WhiteSpace
  THEN TrimRight(SubSeq(s, 1, Len(s) - 1)) ELSE s

Trim(s) == TrimRight(TrimLeft(s))

\* unit.repeat(n)
RECURSIVE Repeat(_, _)
Repeat(unit, n) == IF n <= 0 THEN << >> ELSE unit \o Repeat(unit, n - 1)

\* parts.join(sep)
RECURSIVE Join(_, _)
Join(parts, sep) ==
  IF parts = << >> THEN << >>
  ELSE IF Len(parts) = 1 THEN parts[1]
  ELSE parts[1] \o sep \o Join(Tail(parts), sep)

\* (s.match(/c/g) || []).length for the characters of the set C
CountChars(s, C) == Cardinality({k \in 1..Len(s) : s[k] \in C})

(***************************************************************************)
(* Regular expressions.  Ends(r, s, i) is the set of positions just after  *)
(* a match of r in s that starts at position i (1-based), over all the     *)
(* ways r can match there; which of them the engine reports (greedy, lazy)  *)
(* is decided where a match's extent matters.                              *)
(***************************************************************************)
Lit(w) == [k |-> "lit", w |-> w]

\* a literal under the /i flag
ILit(w) == [k |-> "ilit", w |-> w]

\* [...]
Cls(C) == [k |-> "cls", c |-> C]

\* [^...]
NCls(C) == [k |-> "ncls", c |-> C]

\* .
Dot == NCls(LineTerminator)

\* \s
WS == Cls(WhiteSpace)

Cat(rs) == [k |-> "cat", rs |-> rs]

Alt(rs) == [k |-> "alt", rs |-> rs]

\* r* and r*? (the same set of matches)
Star(r) == [k |-> "star", r |-> r]

\* r+ and r+?
Plus(r) == Cat(<<r, Star(r)>>)

\* r?
Opt(r) == Alt(<<r, Cat(<< >>)>>)

\* ^ and $
Bol == [k |-> "bol"]

Eol == [k |-> "eol"]

LitAt(w, s, i, fold) ==
  /\ i + Len(w) - 1 <= Len(s)
  /\ \A k \in 1..Len(w) :
       IF fold THEN ToLower(s[i + k - 1]) = ToLower(w[k]) ELSE s[i + k - 1] = w[k]

RECURSIVE Ends(_, _, _)
RECURSIVE CatEnds(_, _, _, _)
RECURSIVE StarEnds(_, _, _, _)

Ends(r, s, i) ==
  CASE r.k = "lit"  -> IF LitAt(r.w, s, i, FALSE) THEN {i + Len(r.w)} ELSE {}
    [] r.k = "cat"  -> CatEnds(r.rs, s, {i}, 1)
    [] r.k = "cls"  -> IF i <= Len(s) /\ s[i] \in r.c THEN {i + 1} ELSE {}
    [] r.k = "ncls" -> IF i <= Len(s) /\ s[i] \notin r.c THEN {i + 1} ELSE {}
    [] r.k = "ilit" -> IF LitAt(r.w, s, i, TRUE) THEN {i + Len(r.w)} ELSE {}
    [] r.k = "alt"  -> UNION {Ends(r.rs[n], s, i) : n \in 1..Len(r.rs)}
    [] r.k = "star" -> StarEnds(r.r, s, {i}, {i})
    [] r.k = "bol"  -> IF i = 1 THEN {i} ELSE {}
    [] r.k = "eol"  -> IF i = Len(s) + 1 THEN {i} ELSE {}

CatEnds(rs, s, from, n) ==
  IF n > Len(rs) \/ from = {} THEN from
  ELSE CatEnds(rs, s, UNION {Ends(rs[n], s, i) : i \in from}, n + 1)

StarEnds(r, s, seen, frontier) ==
  LET more == UNION {Ends(r, s, i) : i \in frontier} \ seen
  IN  IF more = {} THEN seen ELSE StarEnds(r, s, seen \cup more, more)

\* The character every match of r starts with, when r starts with a literal
\* ("" otherwise): a scan tries r only where that character stands.
RECURSIVE FirstChar(_)
FirstChar(r) ==
  IF r.k = "lit" /\ Len(r.w) > 0 THEN r.w[1]
  ELSE IF r.k = "cat" /\ Len(r.rs) > 0 THEN FirstChar(r.rs[1])
  ELSE ""

MatchesAt(r, first, s, i) ==
  /\ first = "" \/ (i <= Len(s) /\ s[i] = first)
  /\ Ends(r, s, i) # {}

\* re.test(s)
Test(r, s) ==
  LET first == FirstChar(r)
  IN  \E i \in 1..(Len(s) + 1) : MatchesAt(r, first, s, i)

\* the start of the leftmost match of r in s at or after position from, 0 if none
RECURSIVE ScanFrom(_, _, _, _)
ScanFrom(r, first, s, i) ==
  IF i > Len(s) + 1 THEN 0
  ELSE IF MatchesAt(r, first, s, i) THEN i
  ELSE ScanFrom(r, first, s, i + 1)

FirstMatch(r, s, from) == ScanFrom(r, FirstChar(r), s, from)

(***************************************************************************)
(* Tag classifiers (extension.js, isOpeningTag .. isHtmlSelfClosingTag)    *)
(***************************************************************************)
\* \{%-?\s*
TagStart == Cat(<<Lit(<<"{","%">>), Opt(Lit(<<"-">>)), Star(WS)>>)

\* \{%-?\s*word\s+
TagWordSpace(word) == Cat(<<TagStart, Lit(word), Plus(WS)>>)

\* \{%-?\s*word\s*%\}
TagWordEnd(word) == Cat(<<TagStart, Lit(word), Star(WS), Lit(<<"%","}">>)>>)

\* \{%-?\s*word\s*-?%\}
TagWordDashEnd(word) ==
  Cat(<<TagStart, Lit(word), Star(WS), Opt(Lit(<<"-">>)), Lit(<<"%","}">>)>>)

\* the patterns of isOpeningTag
openingTags ==
  <<TagWordSpace(<<"b","l","o","c","k">>),
    TagWordSpace(<<"f","o","r">>),
    TagWordSpace(<<"i","f">>),
    TagWordSpace(<<"m","a","c","r","o">>),
    TagWordSpace(<<"e","m","b","e","d">>),
    TagWordSpace(<<"a","u","t","o","e","s","c","a","p","e">>),
    TagWordEnd(<<"s","p","a","c","e","l","e","s","s">>),
    TagWordEnd(<<"t","r","a","n","s">>),
    TagWordSpace(<<"a","p","p","l","y">>),
    TagWordSpace(<<"c","a","c","h","e">>),
    TagWordEnd(<<"s","a","n","d","b","o","x">>),
    TagWordSpace(<<"w","i","t","h">>),
    TagWordEnd(<<"v","e","r","b","a","t","i","m">>)>>

\* the patterns of isClosingTag
closingTags ==
  <<TagWordDashEnd(<<"e","n","d","b","l","o","c","k">>),
    TagWordDashEnd(<<"e","n","d","f","o","r">>),
    TagWordDashEnd(<<"e","n","d","i","f">>),
    TagWordDashEnd(<<"e","n","d","m","a","c","r","o">>),
    TagWordDashEnd(<<"e","n","d","s","e","t">>),
    TagWordDashEnd(<<"e","n","d","e","m","b","e","d">>),
    TagWordDashEnd(<<"e","n","d","a","u","t","o","e","s","c","a","p","e">>),
    TagWordDashEnd(<<"e","n","d","s","p","a","c","e","l","e","s","s">>),
    TagWordDashEnd(<<"e","n","d","t","r","a","n","s">>),
    TagWordDashEnd(<<"e","n","d","a","p","p","l","y">>),
    TagWordDashEnd(<<"e","n","d","c","a","c","h","e">>),
    TagWordDashEnd(<<"e","n","d","s","a","n","d","b","o","x">>),
    TagWordDashEnd(<<"e","n","d","w","i","t","h">>),
    TagWordDashEnd(<<"e","n","d","v","e","r","b","a","t","i","m">>),
    TagWordDashEnd(<<"e","l","s","e">>),
    TagWordSpace(<<"e","l","s","e","i","f">>)>>

\* the patterns of isSelfClosingTag
selfClosing ==
  <<TagWordSpace(<<"i","n","c","l","u","d","e">>),
    TagWordSpace(<<"i","m","p","o","r","t">>),
    TagWordSpace(<<"f","r","o","m">>),
    TagWordSpace(<<"u","s","e">>),
    TagWordSpace(<<"e","x","t","e","n","d","s">>),
    TagWordSpace(<<"d","o">>),
    TagWordDashEnd(<<"f","l","u","s","h">>),
    TagWordSpace(<<"d","e","p","r","e","c","a","t","e","d">>)>>

\* the patterns of isMidBlockTag
midBlockTags ==
  <<TagWordDashEnd(<<"e","l","s","e">>),
    TagWordSpace(<<"e","l","s","e","i","f">>)>>

\* patterns.some(pattern => pattern.test(line))
SomeTest(patterns, line) == \E n \in 1..Len(patterns) : Test(patterns[n], line)

\* /^\{%-?\s*set\s+.+%\}$/
SingleLineSetRe ==
  Cat(<<Bol, TagStart, Lit(<<"s","e","t">>), Plus(WS), Plus(Dot), Lit(<<"%","}">>), Eol>>)

isSingleLineSet(line) == Test(SingleLineSetRe, line)

isOpeningTag(line) ==
  IF isSingleLineSet(line) THEN FALSE ELSE SomeTest(openingTags, line)

isClosingTag(line) == SomeTest(closingTags, line)

isSelfClosingTag(line) == SomeTest(selfClosing, line)

\* a classifier that knows no mid-block tag
NeverMidBlockTag(line) == FALSE

isMidBlockTag(line) == SomeTest(midBlockTags, line)

\* the alternatives of the group (if|for|...) of isSingleLineBlock
singleLineWords ==
  <<<<"i","f">>,
    <<"f","o","r">>,
    <<"b","l","o","c","k">>,
    <<"m","a","c","r","o">>,
    <<"e","m","b","e","d">>,
    <<"a","u","t","o","e","s","c","a","p","e">>,
    <<"a","p","p","l","y">>,
    <<"c","a","c","h","e">>,
    <<"s","a","n","d","b","o","x">>,
    <<"w","i","t","h">>>>

\* \{%-?\s*(word)\s+.*%\}\s*\{%-?\s*end\1\s*-?%\}, the back-reference \1 being
\* the word the group matched
SingleLineBlockRe(word) ==
  Cat(<<TagStart, Lit(word), Plus(WS), Star(Dot), Lit(<<"%","}">>), Star(WS),
        TagStart, Lit(<<"e","n","d">>), Lit(word), Star(WS), Opt(Lit(<<"-">>)), Lit(<<"%","}">>)>>)

singleLineBlocks == [n \in 1..Len(singleLineWords) |-> SingleLineBlockRe(singleLineWords[n])]

isSingleLineBlock(line) == SomeTest(singleLineBlocks, line)

\* [a-zA-Z0-9-]+=(["']).*\{[{%].*\1, the back-reference \1 being the quote q
TwigInsideAttributeRe(q) ==
  Cat(<<Plus(Cls(LetterDigitDash)), Lit(<<"=">>), Lit(<<q>>),
        Star(Dot), Lit(<<"{">>), Cls({"{", "%"}), Star(Dot), Lit(<<q>>)>>)

twigInsideAttribute == [q \in Quotes |-> TwigInsideAttributeRe(q)]

isTwigInsideAttribute(line) == \E q \in Quotes : Test(twigInsideAttribute[q], line)

\* <[a-zA-Z][a-zA-Z0-9]*(\s[^<>]*)?>
HtmlOpeningTagRe ==
  Cat(<<Lit(<<"<">>), Cls(Letter), Star(Cls(LetterDigit)),
        Opt(Cat(<<WS, Star(NCls({"<", ">"}))>>)), Lit(<<">">>)>>)

isHtmlOpeningTag(line) == Test(HtmlOpeningTagRe, line)

\* <\/[a-zA-Z][a-zA-Z0-9]*>
HtmlClosingTagRe ==
  Cat(<<Lit(<<"<", "/">>), Cls(Letter), Star(Cls(LetterDigit)), Lit(<<">">>)>>)

isHtmlClosingTag(line) == Test(HtmlClosingTagRe, line)

\* the alternatives of the group (area|base|...) of isHtmlSelfClosingTag
voidTags ==
  <<ILit(<<"a","r","e","a">>),
    ILit(<<"b","a","s","e">>),
    ILit(<<"b","r">>),
    ILit(<<"c","o","l">>),
    ILit(<<"e","m","b","e","d">>),
    ILit(<<"h","r">>),
    ILit(<<"i","m","g">>),
    ILit(<<"i","n","p","u","t">>),
    ILit(<<"l","i","n","k">>),
    ILit(<<"m","e","t","a">>),
    ILit(<<"p","a","r","a","m">>),
    ILit(<<"s","o","u","r","c","e">>),
    ILit(<<"t","r","a","c","k">>),
    ILit(<<"w","b","r">>)>>

\* /<(area|base|...)(\s[^>]*)?\/?>$/i
selfClosingTags ==
  Cat(<<Lit(<<"<">>), Alt(voidTags), Opt(Cat(<<WS, Star(NCls({">"}))>>)),
        Opt(Lit(<<"/">>)), Lit(<<">">>), Eol>>)

\* trimmed.endsWith('/>')
EndsWith(s, w) == Len(s) >= Len(w) /\ SubSeq(s, Len(s) - Len(w) + 1, Len(s)) = w

isHtmlSelfClosingTag(line) ==
  LET trimmed == Trim(line)
  IN  Test(selfClosingTags, trimmed) \/ EndsWith(trimmed, <<"/", ">">>)

shouldDecreaseHtmlIndent(line, isCompleteTag) ==
  /\ ~isCompleteTag
  /\ isHtmlClosingTag(line)
  /\ ~isHtmlSelfClosingTag(line)

shouldIncreaseHtmlIndent(line, isCompleteTag) ==
  /\ ~isCompleteTag
  /\ isHtmlOpeningTag(line)
  /\ ~isHtmlSelfClosingTag(line)
  /\ ~isHtmlClosingTag(line)

(***************************************************************************)
(* collapseTwigAttribute (extension.js 19-58)                              *)
(***************************************************************************)
\* the number of whitespace characters of s from position i on, up to the
\* first character that is not whitespace
RECURSIVE WsRun(_, _)
WsRun(s, i) ==
  IF i <= Len(s) /\ s[i] \in WhiteSpace THEN 1 + WsRun(s, i + 1) ELSE 0

\* s.replace(/\s*\n\s*/g, ' ') when newline is TRUE: every maximal run of
\* whitespace that holds a newline becomes one space (the leading \s* is
\* greedy and backtracks to the run's last newline, the trailing \s* takes
\* the rest of the run).
\* s.replace(/\s{2,}/g, ' ') when newline is FALSE: every maximal run of two
\* or more whitespace characters becomes one space.
RECURSIVE SquashRuns(_, _, _)
SquashRuns(s, i, newline) ==
  IF i > Len(s) THEN << >>
  ELSE LET n == WsRun(s, i)
           hit == IF newline THEN \E k \in i..(i + n - 1) : s[k] = "\n" ELSE n >= 2
       IN  IF n = 0 THEN <<s[i]>> \o SquashRuns(s, i + 1, newline)
           ELSE IF hit THEN <<" ">> \o SquashRuns(s, i + n, newline)
           ELSE Slice(s, i, i + n - 1) \o SquashRuns(s, i + n, newline)

\* ({%|{{)
TwigOpenRe == Alt(<<Lit(<<"{","%">>), Lit(<<"{","{">>)>>)

\* (%}|}})
TwigCloseRe == Alt(<<Lit(<<"%","}">>), Lit(<<"}","}">>)>>)

\* =\s*(['"]) with the quote q
ValueOpenRe(q) == Cat(<<Lit(<<"=">>), Star(WS), Lit(<<q>>)>>)

\* =\s*(['"])(.*)\1 with the quote q, the back-reference \1 being q again
QuotedValueRe(q) == Cat(<<ValueOpenRe(q), Star(Dot), Lit(<<q>>)>>)

valueOpen == [q \in Quotes |-> ValueOpenRe(q)]

quotedValue == [q \in Quotes |-> QuotedValueRe(q)]

\* =\s*(['"])(.*)\1
AnyQuotedValueRe == Alt(<<QuotedValueRe("'"), QuotedValueRe("\"")>>)

\* ([^\{\{%]+?)\s*({[{%])
BeforeTwigRe ==
  Cat(<<Plus(NCls({"{", "%"})), Star(WS), Lit(<<"{">>), Cls({"{", "%"})>>)

\* s with the match of BeforeTwigRe that starts at p replaced by
\* before.trim() + ' ' + twig.  The match ends just after the first '{' at or
\* after p and the character following it; the lazy group `before` is the
\* shortest prefix after which only whitespace precedes that '{'.
SpaceBeforeTwig(s, p) ==
  LET e == Min(Ends(BeforeTwigRe, s, p))
      b == Min({n \in p..(e - 3) : \A k \in (n + 1)..(e - 3) : s[k] \in WhiteSpace})
  IN  Slice(s, 1, p - 1) \o Trim(Slice(s, p, b)) \o <<" ">>
        \o Slice(s, e - 2, e - 1) \o Slice(s, e, Len(s))

\* (%}|}})\s*$
AfterTwigRe == Cat(<<TwigCloseRe, Star(WS), Eol>>)

\* v.replace(/(%}|}})\s*$/, endTwig + ' ')
SpaceAfterLastTwig(v) ==
  LET p == FirstMatch(AfterTwigRe, v, 1)
  IN  IF p = 0 THEN v ELSE Slice(v, 1, p + 1) \o <<" ">>

\* (%}|}})\s*(['"])
TwigThenQuoteRe == Cat(<<TwigCloseRe, Star(WS), Cls(Quotes)>>)

\* s.replace(/(%}|}})\s*(['"])/g, '$1 $2') from position from on
RECURSIVE SpaceAfterTwigAll(_, _)
SpaceAfterTwigAll(s, from) ==
  LET p == FirstMatch(TwigThenQuoteRe, s, from)
  IN  IF p = 0 THEN Slice(s, from, Len(s))
      ELSE LET e == Min(Ends(TwigThenQuoteRe, s, p))
           IN  Slice(s, from, p + 1) \o <<" ", s[e - 1]>> \o SpaceAfterTwigAll(s, e)

\* The replacement string `=${quote}${attrValue}${quote}` of line 47 is taken
\* literally: the documents of this model hold no '$'.
collapseTwigAttribute(attributeLines) ==
  LET joined == Join(attributeLines, <<" ">>)
      collapsed == SquashRuns(SquashRuns(joined, 1, TRUE), 1, FALSE)
      twigBlockMatch == Test(TwigOpenRe, collapsed)
      \* m: the leftmost '=' from which the quoted value matches
      m == FirstMatch(AnyQuotedValueRe, collapsed, 1)
      quote == CHOOSE q \in Quotes : Ends(quotedValue[q], collapsed, m) # {}
      valueStart == Min(Ends(valueOpen[quote], collapsed, m))
      \* (.*) is greedy: the value runs to the last closing quote it can reach
      matchEnd == Max(Ends(quotedValue[quote], collapsed, m))
      attrValue0 == Slice(collapsed, valueStart, matchEnd - 2)
      attrValue1 == IF Ends(BeforeTwigRe, attrValue0, 1) # {}
                    THEN SpaceBeforeTwig(attrValue0, 1) ELSE attrValue0
      attrValue2 == SpaceAfterLastTwig(attrValue1)
      attrValue == Trim(SquashRuns(attrValue2, 1, FALSE))
      rebuilt == Slice(collapsed, 1, m - 1) \o <<"=", quote>> \o attrValue
                   \o <<quote>> \o Slice(collapsed, matchEnd, Len(collapsed))
      first == FirstMatch(BeforeTwigRe, collapsed, 1)
      fallback0 == IF first = 0 THEN collapsed ELSE SpaceBeforeTwig(collapsed, first)
      fallback == SquashRuns(SpaceAfterTwigAll(fallback0, 1), 1, FALSE)
  IN  Trim(IF ~twigBlockMatch THEN collapsed
           ELSE IF m # 0 THEN rebuilt
           ELSE fallback)

(***************************************************************************)
(* splitTwigLine (extension.js 64-81)                                      *)
(***************************************************************************)
\* (\{\%.*?\%\}|\{\{.*?\}\})
TwigSpanRe ==
  Alt(<<Cat(<<Lit(<<"{","%">>), Star(Dot), Lit(<<"%","}">>)>>),
        Cat(<<Lit(<<"{","{">>), Star(Dot), Lit(<<"}","}">>)>>)>>)

\* a loop that starts the next search one character after lastIndex
RECURSIVE SplitFromSkipping(_, _)
SplitFromSkipping(line, lastIndex) ==
  LET index == FirstMatch(TwigSpanRe, line, IF lastIndex > 1 THEN lastIndex + 1 ELSE 1)
  IN  IF index = 0
      THEN IF lastIndex <= Len(line) THEN <<Slice(line, lastIndex, Len(line))>> ELSE << >>
      ELSE LET next == Min(Ends(TwigSpanRe, line, index))
           IN  (IF index > lastIndex THEN <<Slice(line, lastIndex, index - 1)>> ELSE << >>)
                 \o <<Slice(line, index, next - 1)>> \o SplitFromSkipping(line, next)

\* The while loop of re.exec: lastIndex is the position the next search
\* starts at.  .*? is lazy, so a match ends at the first closing delimiter.
RECURSIVE SplitFrom(_, _)
SplitFrom(line, lastIndex) ==
  LET index == FirstMatch(TwigSpanRe, line, lastIndex)
  IN  IF index = 0
      THEN IF lastIndex <= Len(line) THEN <<Slice(line, lastIndex, Len(line))>> ELSE << >>
      ELSE LET next == Min(Ends(TwigSpanRe, line, index))
           IN  (IF index > lastIndex THEN <<Slice(line, lastIndex, index - 1)>> ELSE << >>)
                 \o <<Slice(line, index, next - 1)>> \o SplitFrom(line, next)

\* a filter that keeps every run
KeepsEveryRun(s) == TRUE

NotBlank(s) == Len(Trim(s)) > 0

splitTwigLine(line) == SelectSeq(SplitFrom(line, 1), NotBlank)

(***************************************************************************)
(* format (extension.js 88-316): the rules of the line loop as operators   *)
(* on the record f of the formatter's fields and format's locals           *)
(***************************************************************************)
\* attributeQuote = null
Null == "null"

\* The fields the constructor sets (8-12) and format's locals at line 104
Fresh(size, tabs, preserve) ==
  [indentSize |-> size, useTabs |-> tabs, preserveNewLines |-> preserve,
   formattedLines |-> << >>, twigIndentLevel |-> 0, htmlIndentLevel |-> 0,
   inComment |-> FALSE, inVerbatim |-> FALSE,
   inScriptTag |-> FALSE, inStyleTag |-> FALSE,
   scriptTagBaseIndent |-> 0, styleTagBaseIndent |-> 0,
   insideTwigAttribute |-> FALSE, attributeQuote |-> Null, attributeLines |-> << >>,
   emitted |-> << >>]

\* an indent unit that is spaces whatever useTabs says
indentSpacesOnly(f) == Repeat(<<" ">>, f.indentSize)

\* this.useTabs ? '\t' : ' '.repeat(this.indentSize)
indentChar(f) == IF f.useTabs THEN <<"\t">> ELSE Repeat(<<" ">>, f.indentSize)

\* a decrement without its floor: what Math.max(0, n) guards against
Unclamped(n) == n

\* Math.max(0, n)
ClampZero(n) == IF n < 0 THEN 0 ELSE n

\* twigIndentLevel and htmlIndentLevel as they are when a line is pushed
\* (history: emitted[n] goes with formattedLines[n])
Depths(f) == [twig |-> f.twigIndentLevel, html |-> f.htmlIndentLevel]

\* a push that leaves the template depth out of the indent
PushMarkupDepthOnly(f, text) ==
  [f EXCEPT !.formattedLines =
              Append(@, Repeat(indentChar(f), f.htmlIndentLevel) \o text),
            !.emitted = Append(@, Depths(f))]

\* formattedLines.push(indentChar.repeat(twigIndentLevel + htmlIndentLevel) + text)
Push(f, text) ==
  [f EXCEPT !.formattedLines =
              Append(@, Repeat(indentChar(f), f.twigIndentLevel + f.htmlIndentLevel) \o text),
            !.emitted = Append(@, Depths(f))]

\* <[\w\-]+[^>]*(class|style|[a-zA-Z\-]+)=(['"])([^'"]*({%|{{)[^'"]*)$ with the
\* quote q as group 2
AttrStartRe(q) ==
  Cat(<<Lit(<<"<">>), Plus(Cls(WordDash)), Star(NCls({">"})),
        Alt(<<Lit(<<"c","l","a","s","s">>), Lit(<<"s","t","y","l","e">>),
              Plus(Cls(LetterDash))>>),
        Lit(<<"=">>), Lit(<<q>>), Star(NCls(Quotes)), TwigOpenRe,
        Star(NCls(Quotes)), Eol>>)

\* attrMatch[2], Null when the line does not match.  No quote follows group 2
\* up to the end of the line, so at most one quote can be group 2.
attrStart == [q \in Quotes |-> AttrStartRe(q)]

attrMatch(line) ==
  IF \E q \in Quotes : Test(attrStart[q], line)
  THEN CHOOSE q \in Quotes : Test(attrStart[q], line)
  ELSE Null

\* <[\w\-]+[^>]*=['"][^'"]*({%|{{)[^'"]*['"][^>]*>
SingleLineAttrRe ==
  Cat(<<Lit(<<"<">>), Plus(Cls(WordDash)), Star(NCls({">"})),
        Lit(<<"=">>), Cls(Quotes), Star(NCls(Quotes)), TwigOpenRe,
        Star(NCls(Quotes)), Cls(Quotes), Star(NCls({">"})), Lit(<<">">>)>>)

\* 114-127
AttrContinue(f, line) ==
  LET buffered == Append(f.attributeLines, line)
      quoteCount == CountChars(Join(buffered, <<"\n">>), {f.attributeQuote})
  IN  IF quoteCount % 2 = 0
      THEN [Push(f, collapseTwigAttribute(buffered)) EXCEPT
              !.insideTwigAttribute = FALSE,
              !.attributeLines = << >>,
              !.attributeQuote = Null]
      ELSE [f EXCEPT !.attributeLines = buffered]

\* an attribute start that also emits its line
AttrStartEmitting(f, line) ==
  Push([f EXCEPT !.insideTwigAttribute = TRUE,
                 !.attributeQuote = attrMatch(line),
                 !.attributeLines = <<line>>], Trim(line))

\* 131-136
AttrStart(f, line) ==
  [f EXCEPT !.insideTwigAttribute = TRUE,
            !.attributeQuote = attrMatch(line),
            !.attributeLines = <<line>>]

\* a single-line attribute rule that treats its line as the opening tag it is
AttrSingleAsTag(f, line) ==
  LET pushed == Push(f, collapseTwigAttribute(<<line>>))
  IN  IF shouldIncreaseHtmlIndent(line, FALSE)
      THEN [pushed EXCEPT !.htmlIndentLevel = @ + 1]
      ELSE pushed

\* 139-144
AttrSingle(f, line) == Push(f, collapseTwigAttribute(<<line>>))

\* 151-158
BlankLine(f) ==
  IF f.preserveNewLines
  THEN [f EXCEPT !.formattedLines = Append(@, << >>), !.emitted = Append(@, Depths(f))]
  ELSE f

\* 161-171
CommentOpenRe == Lit(<<"{","#">>)

CommentCloseRe == Lit(<<"#","}">>)

opensComment(trimmedLine) == Test(CommentOpenRe, trimmedLine)

CommentLine(f, trimmedLine) ==
  LET pushed == Push([f EXCEPT !.inComment = TRUE], trimmedLine)
  IN  IF Test(CommentCloseRe, trimmedLine)
      THEN [pushed EXCEPT !.inComment = FALSE]
      ELSE pushed

\* \{%\s*word\s*%\}
BareTagRe(word) ==
  Cat(<<Lit(<<"{","%">>), Star(WS), Lit(word), Star(WS), Lit(<<"%","}">>)>>)

\* 174-184
VerbatimRe == BareTagRe(<<"v","e","r","b","a","t","i","m">>)

EndVerbatimRe == BareTagRe(<<"e","n","d","v","e","r","b","a","t","i","m">>)

opensVerbatim(trimmedLine) == Test(VerbatimRe, trimmedLine)

VerbatimLine(f, trimmedLine) ==
  LET pushed == Push([f EXCEPT !.inVerbatim = TRUE], trimmedLine)
  IN  IF Test(EndVerbatimRe, trimmedLine)
      THEN [pushed EXCEPT !.inVerbatim = FALSE]
      ELSE pushed

\* /<name[^>]*>/i
OpenElementRe(name) == Cat(<<Lit(<<"<">>), ILit(name), Star(NCls({">"})), Lit(<<">">>)>>)

\* /<\/name>/i
CloseElementRe(name) == Cat(<<Lit(<<"<", "/">>), ILit(name), Lit(<<">">>)>>)

\* 187-190
ScriptOpenRe == OpenElementRe(<<"s","c","r","i","p","t">>)

ScriptCloseRe == CloseElementRe(<<"s","c","r","i","p","t">>)

StyleOpenRe == OpenElementRe(<<"s","t","y","l","e">>)

StyleCloseRe == CloseElementRe(<<"s","t","y","l","e">>)

isScriptClosing(trimmedLine) == Test(ScriptCloseRe, trimmedLine)

isScriptOpening(trimmedLine) ==
  Test(ScriptOpenRe, trimmedLine) /\ ~isScriptClosing(trimmedLine)

isStyleClosing(trimmedLine) == Test(StyleCloseRe, trimmedLine)

isStyleOpening(trimmedLine) ==
  Test(StyleOpenRe, trimmedLine) /\ ~isStyleClosing(trimmedLine)

\* 193-203
ScriptOpen(f, trimmedLine) ==
  [Push(f, trimmedLine) EXCEPT
     !.inScriptTag = TRUE,
     !.scriptTagBaseIndent = f.htmlIndentLevel,
     !.htmlIndentLevel = f.htmlIndentLevel + 1]

\* 205-215
StyleOpen(f, trimmedLine) ==
  [Push(f, trimmedLine) EXCEPT
     !.inStyleTag = TRUE,
     !.styleTagBaseIndent = f.htmlIndentLevel,
     !.htmlIndentLevel = f.htmlIndentLevel + 1]

\* 218-227
ScriptClose(f, trimmedLine) ==
  Push([f EXCEPT !.htmlIndentLevel = f.scriptTagBaseIndent, !.inScriptTag = FALSE],
       trimmedLine)

\* 229-238
StyleClose(f, trimmedLine) ==
  Push([f EXCEPT !.htmlIndentLevel = f.styleTagBaseIndent, !.inStyleTag = FALSE],
       trimmedLine)

\* a net change that counts the braces and leaves the brackets out
netChangeBracesOnly(trimmed) == CountChars(trimmed, {"{"}) - CountChars(trimmed, {"}"})

\* 245-251
netChange(trimmed) ==
  (CountChars(trimmed, {"{"}) + CountChars(trimmed, {"["}))
    - (CountChars(trimmed, {"}"}) + CountChars(trimmed, {"]"}))

\* a body rule that lets a template closing tag close a block
ScriptBodyClosingBlocks(f, trimmedLine) ==
  Push([f EXCEPT !.twigIndentLevel =
          IF isClosingTag(trimmedLine) THEN ClampZero(@ - 1) ELSE @], trimmedLine)

\* 241-268
ScriptBody(f, trimmedLine) ==
  LET net == netChange(trimmedLine)
      before == IF net < 0
                THEN [f EXCEPT !.htmlIndentLevel = ClampZero(f.htmlIndentLevel + net)]
                ELSE f
      pushed == Push(before, trimmedLine)
  IN  IF net > 0
      THEN [pushed EXCEPT !.htmlIndentLevel = pushed.htmlIndentLevel + net]
      ELSE pushed

\* 274-311: one pass of the loop over splitLines, for the run raw
RunStep(f, raw) ==
  LET item == Trim(raw)
      isCompleteTag == isHtmlOpeningTag(item) /\ isHtmlClosingTag(item)
      f1 == IF shouldDecreaseHtmlIndent(item, isCompleteTag)
            THEN [f EXCEPT !.htmlIndentLevel = ClampZero(f.htmlIndentLevel - 1)]
            ELSE f
      f2 == IF isClosingTag(item)
            THEN [f1 EXCEPT !.twigIndentLevel = ClampZero(f1.twigIndentLevel - 1)]
            ELSE f1
      f3 == Push(f2, item)
      f4 == IF isOpeningTag(item) /\ ~isSelfClosingTag(item) /\ ~isSingleLineBlock(item)
            THEN [f3 EXCEPT !.twigIndentLevel = f3.twigIndentLevel + 1]
            ELSE f3
      f5 == IF isMidBlockTag(item)
            THEN [f4 EXCEPT !.twigIndentLevel = f4.twigIndentLevel + 1]
            ELSE f4
  IN  IF isTwigInsideAttribute(item) THEN Push(f, item)
      ELSE IF shouldIncreaseHtmlIndent(item, isCompleteTag)
           THEN [f5 EXCEPT !.htmlIndentLevel = f5.htmlIndentLevel + 1]
           ELSE f5

\* 273-312: the loop over splitLines from the run at index t on
RECURSIVE RunsFrom(_, _, _)
RunsFrom(f, runs, t) ==
  IF t > Len(runs) THEN f ELSE RunsFrom(RunStep(f, runs[t]), runs, t + 1)

\* 107-312: one pass of the loop over lines, the rules in the order of the code
LineStep(f, line) ==
  LET trimmedLine == Trim(line)
  IN  IF f.insideTwigAttribute THEN AttrContinue(f, line)
      ELSE IF attrMatch(line) # Null THEN AttrStart(f, line)
      ELSE IF Test(SingleLineAttrRe, line) THEN AttrSingle(f, line)
      ELSE IF trimmedLine = << >> THEN BlankLine(f)
      ELSE IF f.inComment \/ opensComment(trimmedLine) THEN CommentLine(f, trimmedLine)
      ELSE IF f.inVerbatim \/ opensVerbatim(trimmedLine) THEN VerbatimLine(f, trimmedLine)
      ELSE IF isScriptOpening(trimmedLine) THEN ScriptOpen(f, trimmedLine)
      ELSE IF isStyleOpening(trimmedLine) THEN StyleOpen(f, trimmedLine)
      ELSE IF isScriptClosing(trimmedLine) THEN ScriptClose(f, trimmedLine)
      ELSE IF isStyleClosing(trimmedLine) THEN StyleClose(f, trimmedLine)
      ELSE IF f.inScriptTag \/ f.inStyleTag THEN ScriptBody(f, trimmedLine)
      ELSE RunsFrom(f, splitTwigLine(line), 1)

\* 106-313
RECURSIVE LinesFrom(_, _, _)
LinesFrom(f, input, n) ==
  IF n > Len(input) THEN f ELSE LinesFrom(LineStep(f, input[n]), input, n + 1)

\* text.split('\n')
RECURSIVE SplitLines(_)
SplitLines(text) ==
  IF \E n \in 1..Len(text) : text[n] = "\n"
  THEN LET n == Min({m \in 1..Len(text) : text[m] = "\n"})
       IN  <<Slice(text, 1, n - 1)>> \o SplitLines(Slice(text, n + 1, Len(text)))
  ELSE <<text>>

\* format(text) on a formatter with the given settings: the text returned
format(size, tabs, preserve, text) ==
  Join(LinesFrom(Fresh(size, tabs, preserve), SplitLines(text), 1).formattedLines, <<"\n">>)

(***************************************************************************)
(* The formatter as a state machine: one format call on one document       *)
(***************************************************************************)
VARIABLES
  indentSize, useTabs, preserveNewLines,       \* this.* (9-11)
  lines, i, formattedLines,                     \* 91, 106, 92
  twigIndentLevel, htmlIndentLevel,             \* 93-94
  inComment, inVerbatim, inScriptTag, inStyleTag,
  scriptTagBaseIndent, styleTagBaseIndent,      \* 95-100
  insideTwigAttribute, attributeQuote, attributeLines,
  splitLines, t,                                \* 271, 273
  pc,        \* "loop": at the head of the loop over lines; "runs": in the
             \* loop over splitLines; "done": format has returned
  result,    \* the text format returns (315), Null before
  dispatch,  \* history: for every line consumed, the rule that took it and
             \* the output length and depths it found
  emitted,   \* history: for every output line, the depths it was pushed at
  parked     \* the format calls that are suspended while this one runs, each
             \* with its formatter's fields and its locals: none when one
             \* call runs alone

vars == <<indentSize, useTabs, preserveNewLines, lines, i, formattedLines,
          twigIndentLevel, htmlIndentLevel, inComment, inVerbatim, inScriptTag,
          inStyleTag, scriptTagBaseIndent, styleTagBaseIndent,
          insideTwigAttribute, attributeQuote, attributeLines,
          splitLines, t, pc, result, dispatch, emitted, parked>>

\* the formatter's fields and format's locals as one record
State ==
  [indentSize |-> indentSize, useTabs |-> useTabs, preserveNewLines |-> preserveNewLines,
   formattedLines |-> formattedLines,
   twigIndentLevel |-> twigIndentLevel, htmlIndentLevel |-> htmlIndentLevel,
   inComment |-> inComment, inVerbatim |-> inVerbatim,
   inScriptTag |-> inScriptTag, inStyleTag |-> inStyleTag,
   scriptTagBaseIndent |-> scriptTagBaseIndent, styleTagBaseIndent |-> styleTagBaseIndent,
   insideTwigAttribute |-> insideTwigAttribute, attributeQuote |-> attributeQuote,
   attributeLines |-> attributeLines, emitted |-> emitted]

Assigns(f) ==
  /\ formattedLines' = f.formattedLines
  /\ twigIndentLevel' = f.twigIndentLevel
  /\ htmlIndentLevel' = f.htmlIndentLevel
  /\ inComment' = f.inComment
  /\ inVerbatim' = f.inVerbatim
  /\ inScriptTag' = f.inScriptTag
  /\ inStyleTag' = f.inStyleTag
  /\ scriptTagBaseIndent' = f.scriptTagBaseIndent
  /\ styleTagBaseIndent' = f.styleTagBaseIndent
  /\ insideTwigAttribute' = f.insideTwigAttribute
  /\ attributeQuote' = f.attributeQuote
  /\ attributeLines' = f.attributeLines
  /\ emitted' = f.emitted

\* a step of the running call: its locals become those of f, the fields of
\* its formatter and the suspended calls are left alone
Becomes(f) ==
  /\ Assigns(f)
  /\ UNCHANGED <<indentSize, useTabs, preserveNewLines, parked>>

\* what the history records when a line is taken by rule
Taken(rule) ==
  [rule |-> rule, out |-> Len(formattedLines),
   twig |-> twigIndentLevel, html |-> htmlIndentLevel]

\* a rule that ends with `continue`: the state it leaves and the next line
Continue(f, rule) ==
  /\ Becomes(f)
  /\ i' = i + 1
  /\ dispatch' = Append(dispatch, Taken(rule))
  /\ UNCHANGED <<lines, splitLines, t, pc, result>>

\* a loop over lines that stops one line short
AtLineButLast == pc = "loop" /\ i < Len(lines)

AtLine == pc = "loop" /\ i <= Len(lines)

\* a loop body in which no rule stands before the others
PastNothing(line) == TRUE

\* The conditions under which the loop body gets past each rule (each rule
\* before it did not `continue`)
PastAttributes(line) ==
  /\ ~insideTwigAttribute
  /\ attrMatch(line) = Null
  /\ ~Test(SingleLineAttrRe, line)

PastEmpty(line) == PastAttributes(line) /\ Trim(line) # << >>

PastComment(line) == PastEmpty(line) /\ ~(inComment \/ opensComment(Trim(line)))

PastVerbatim(line) == PastComment(line) /\ ~(inVerbatim \/ opensVerbatim(Trim(line)))

PastScriptTags(line) ==
  /\ PastVerbatim(line)
  /\ ~isScriptOpening(Trim(line))
  /\ ~isStyleOpening(Trim(line))
  /\ ~isScriptClosing(Trim(line))
  /\ ~isStyleClosing(Trim(line))

\* 114-127
ContinueAttribute ==
  /\ AtLine
  /\ insideTwigAttribute
  /\ Continue(AttrContinue(State, lines[i]), "attributeContinue")

\* 130-136
StartAttribute ==
  /\ AtLine
  /\ ~insideTwigAttribute
  /\ attrMatch(lines[i]) # Null
  /\ Continue(AttrStart(State, lines[i]), "attributeStart")

\* 139-144
SingleLineAttribute ==
  /\ AtLine
  /\ ~insideTwigAttribute
  /\ Test(SingleLineAttrRe, lines[i])
  /\ attrMatch(lines[i]) = Null
  /\ Continue(AttrSingle(State, lines[i]), "attributeSingle")

\* 151-158
EmptyLine ==
  /\ AtLine
  /\ Trim(lines[i]) = << >>
  /\ PastAttributes(lines[i])
  /\ Continue(BlankLine(State), "empty")

\* 161-171
Comment ==
  /\ AtLine
  /\ inComment \/ opensComment(Trim(lines[i]))
  /\ PastEmpty(lines[i])
  /\ Continue(CommentLine(State, Trim(lines[i])), "comment")

\* 174-184
Verbatim ==
  /\ AtLine
  /\ inVerbatim \/ opensVerbatim(Trim(lines[i]))
  /\ PastComment(lines[i])
  /\ Continue(VerbatimLine(State, Trim(lines[i])), "verbatim")

\* 193-203
OpenScript ==
  /\ AtLine
  /\ isScriptOpening(Trim(lines[i]))
  /\ PastVerbatim(lines[i])
  /\ Continue(ScriptOpen(State, Trim(lines[i])), "scriptOpen")

\* 205-215
OpenStyle ==
  /\ AtLine
  /\ isStyleOpening(Trim(lines[i]))
  /\ ~isScriptOpening(Trim(lines[i]))
  /\ PastVerbatim(lines[i])
  /\ Continue(StyleOpen(State, Trim(lines[i])), "styleOpen")

\* 218-227
CloseScript ==
  /\ AtLine
  /\ isScriptClosing(Trim(lines[i]))
  /\ ~isScriptOpening(Trim(lines[i]))
  /\ ~isStyleOpening(Trim(lines[i]))
  /\ PastVerbatim(lines[i])
  /\ Continue(ScriptClose(State, Trim(lines[i])), "scriptClose")

\* 229-238
CloseStyle ==
  /\ AtLine
  /\ isStyleClosing(Trim(lines[i]))
  /\ ~isScriptOpening(Trim(lines[i]))
  /\ ~isStyleOpening(Trim(lines[i]))
  /\ ~isScriptClosing(Trim(lines[i]))
  /\ PastVerbatim(lines[i])
  /\ Continue(StyleClose(State, Trim(lines[i])), "styleClose")

\* 241-268
ScriptStyleBody ==
  /\ AtLine
  /\ inScriptTag \/ inStyleTag
  /\ PastScriptTags(lines[i])
  /\ Continue(ScriptBody(State, Trim(lines[i])), "body")

\* 271-273: the line is split and the loop over its runs starts; a line with
\* no run (none reaches this point) goes on to the next line
SplitLine ==
  /\ AtLine
  /\ ~(inScriptTag \/ inStyleTag)
  /\ PastScriptTags(lines[i])
  /\ splitLines' = splitTwigLine(lines[i])
  /\ t' = 1
  /\ IF splitLines' = << >>
     THEN pc' = "loop" /\ i' = i + 1
     ELSE pc' = "runs" /\ i' = i
  /\ dispatch' = Append(dispatch, Taken("runs"))
  /\ Becomes(State)
  /\ UNCHANGED <<lines, result>>

\* 273-312: one run; after the last run of the line, the next line
ProcessRun ==
  /\ pc = "runs"
  /\ t <= Len(splitLines)
  /\ Becomes(RunStep(State, splitLines[t]))
  /\ t' = t + 1
  /\ IF t' > Len(splitLines)
     THEN pc' = "loop" /\ i' = i + 1
     ELSE pc' = "runs" /\ i' = i
  /\ UNCHANGED <<lines, splitLines, dispatch, result>>

\* 315
Return ==
  /\ pc = "loop"
  /\ i > Len(lines)
  /\ pc' = "done"
  /\ result' = Join(formattedLines, <<"\n">>)
  /\ Becomes(State)
  /\ UNCHANGED <<lines, i, splitLines, t, dispatch>>

Next ==
  \/ ContinueAttribute
  \/ StartAttribute
  \/ SingleLineAttribute
  \/ EmptyLine
  \/ Comment
  \/ Verbatim
  \/ OpenScript
  \/ OpenStyle
  \/ CloseScript
  \/ CloseStyle
  \/ ScriptStyleBody
  \/ SplitLine
  \/ ProcessRun
  \/ Return

\* format(text) is entered on a formatter with the given settings, the
\* document being the lines of text
Enter(size, tabs, preserve, document) ==
  /\ indentSize = size
  /\ useTabs = tabs
  /\ preserveNewLines = preserve
  /\ lines = document
  /\ i = 1
  /\ formattedLines = << >>
  /\ twigIndentLevel = 0
  /\ htmlIndentLevel = 0
  /\ inComment = FALSE
  /\ inVerbatim = FALSE
  /\ inScriptTag = FALSE
  /\ inStyleTag = FALSE
  /\ scriptTagBaseIndent = 0
  /\ styleTagBaseIndent = 0
  /\ insideTwigAttribute = FALSE
  /\ attributeQuote = Null
  /\ attributeLines = << >>
  /\ splitLines = << >>
  /\ t = 1
  /\ pc = "loop"
  /\ result = Null
  /\ dispatch = << >>
  /\ emitted = << >>
(***************************************************************************)
(* Documents.  The lines the formatter is run on, and the documents built  *)
(* from them.                                                              *)
(***************************************************************************)
\* {% if x %}
IfOpen == <<"{","%"," ","i","f"," ","x"," ","%","}">>

\* {% endif %}
EndIf == <<"{","%"," ","e","n","d","i","f"," ","%","}">>

\* {% else %}
ElseTag == <<"{","%"," ","e","l","s","e"," ","%","}">>

\* {% elseif y %}
ElseIfTag == <<"{","%"," ","e","l","s","e","i","f"," ","y"," ","%","}">>

\* {% for i in items %}
ForOpen == <<"{","%"," ","f","o","r"," ","i"," ","i","n"," ","i","t","e","m","s"," ","%","}">>

\* {% endfor %}
EndFor == <<"{","%"," ","e","n","d","f","o","r"," ","%","}">>

\* {% block main %}
BlockOpen == <<"{","%"," ","b","l","o","c","k"," ","m","a","i","n"," ","%","}">>

\* {% endblock %}
EndBlock == <<"{","%"," ","e","n","d","b","l","o","c","k"," ","%","}">>

\* {% macro m() %}
MacroOpen == <<"{","%"," ","m","a","c","r","o"," ","m","(",")"," ","%","}">>

\* {% endmacro %}
EndMacro == <<"{","%"," ","e","n","d","m","a","c","r","o"," ","%","}">>

\* {% embed 'a' %}
EmbedOpen == <<"{","%"," ","e","m","b","e","d"," ","'","a","'"," ","%","}">>

\* {% endembed %}
EndEmbed == <<"{","%"," ","e","n","d","e","m","b","e","d"," ","%","}">>

\* {% autoescape %}
AutoescapeOpen == <<"{","%"," ","a","u","t","o","e","s","c","a","p","e"," ","%","}">>

\* {% endautoescape %}
EndAutoescape == <<"{","%"," ","e","n","d","a","u","t","o","e","s","c","a","p","e"," ","%","}">>

\* {% spaceless %}
SpacelessOpen == <<"{","%"," ","s","p","a","c","e","l","e","s","s"," ","%","}">>

\* {% endspaceless %}
EndSpaceless == <<"{","%"," ","e","n","d","s","p","a","c","e","l","e","s","s"," ","%","}">>

\* {% trans %}
TransOpen == <<"{","%"," ","t","r","a","n","s"," ","%","}">>

\* {% endtrans %}
EndTrans == <<"{","%"," ","e","n","d","t","r","a","n","s"," ","%","}">>

\* {% apply upper %}
ApplyOpen == <<"{","%"," ","a","p","p","l","y"," ","u","p","p","e","r"," ","%","}">>

\* {% endapply %}
EndApply == <<"{","%"," ","e","n","d","a","p","p","l","y"," ","%","}">>

\* {% cache 'k' %}
CacheOpen == <<"{","%"," ","c","a","c","h","e"," ","'","k","'"," ","%","}">>

\* {% endcache %}
EndCache == <<"{","%"," ","e","n","d","c","a","c","h","e"," ","%","}">>

\* {% sandbox %}
SandboxOpen == <<"{","%"," ","s","a","n","d","b","o","x"," ","%","}">>

\* {% endsandbox %}
EndSandbox == <<"{","%"," ","e","n","d","s","a","n","d","b","o","x"," ","%","}">>

\* {% with %}
WithOpen == <<"{","%"," ","w","i","t","h"," ","%","}">>

\* {% endwith %}
EndWith == <<"{","%"," ","e","n","d","w","i","t","h"," ","%","}">>

\* <div>
DivOpen == <<"<","d","i","v",">">>

\* </div>
DivClose == <<"<","/","d","i","v",">">>

\* hello
Hello == <<"h","e","l","l","o">>

\* X
TextX == <<"X">>

\* Y
TextY == <<"Y">>

\* {% if x %}y{% endif %}
InlineIf == <<"{","%"," ","i","f"," ","x"," ","%","}","y","{","%"," ","e","n","d","i","f"," ","%","}">>

\* <p>{{ i }}</p>
InlineP == <<"<","p",">","{","{"," ","i"," ","}","}","<","/","p",">">>

\* <div
DivBare == <<"<","d","i","v">>

\*   class="a {{ b }} c">
ClassLine == <<" "," ","c","l","a","s","s","=","\"","a"," ","{","{"," ","b"," ","}","}"," ","c","\"",">">>

\* <div class="a {{ b }} c">
DivCollapsed == <<"<","d","i","v"," ","c","l","a","s","s","=","\"","a"," ","{","{"," ","b"," ","}","}"," ","c","\"",">">>

\* <div class="a {{ b }}
AttrOpenLine == <<"<","d","i","v"," ","c","l","a","s","s","=","\"","a"," ","{","{"," ","b"," ","}","}">>

\*   c">
AttrCloseTag == <<" "," ","c","\"",">">>

\*   c"
AttrCloseQuote == <<" "," ","c","\"">>

\*   id="x">
IdLine == <<" "," ","i","d","=","\"","x","\"",">">>

\* <a href="{{ x }}">
LinkLine == <<"<","a"," ","h","r","e","f","=","\"","{","{"," ","x"," ","}","}","\"",">">>

\* <script>
ScriptTag == <<"<","s","c","r","i","p","t",">">>

\* </script>
EndScript == <<"<","/","s","c","r","i","p","t",">">>

\* <style>
StyleTag == <<"<","s","t","y","l","e",">">>

\* </style>
EndStyle == <<"<","/","s","t","y","l","e",">">>

\* if (a) {
JsIf == <<"i","f"," ","(","a",")"," ","{">>

\* } else {
JsElse == <<"}"," ","e","l","s","e"," ","{">>

\* }
JsBrace == <<"}">>

\* b;
JsStatement == <<"b",";">>

\* {# note
CommentOpenLine == <<"{","#"," ","n","o","t","e">>

\* note #}
CommentCloseLine == <<"n","o","t","e"," ","#","}">>

\* {% verbatim %}
VerbatimTag == <<"{","%"," ","v","e","r","b","a","t","i","m"," ","%","}">>

\* {% endverbatim %}
EndVerbatim == <<"{","%"," ","e","n","d","v","e","r","b","a","t","i","m"," ","%","}">>

\* </a>
AClose == <<"<","/","a",">">>

\* p {
CssRule == <<"p"," ","{">>

\* color: red;
CssDecl == <<"c","o","l","o","r",":"," ","r","e","d",";">>

\* ''
Empty == << >>

\* The bounds of the documents
MaxLines == 3

MaxBody == 2

MaxContext == 1

\* this.indentSize as the constructor sets it
DefaultIndentSize == 4

\* The values of <<indentSize, useTabs, preserveNewLines>>: the constructor's,
\* and the ones a user of the class assigns to these fields
Settings ==
  {<<DefaultIndentSize, FALSE, TRUE>>, <<2, FALSE, TRUE>>,
   <<DefaultIndentSize, TRUE, TRUE>>, <<DefaultIndentSize, FALSE, FALSE>>}

\* all sequences over S of length 1..n
RECURSIVE SeqsUpTo(_, _)
SeqsUpTo(S, n) ==
  IF n <= 0 THEN {}
  ELSE LET shorter == SeqsUpTo(S, n - 1)
       IN  {<<x>> : x \in S} \cup shorter \cup {Append(s, x) : s \in shorter, x \in S}

\* Arbitrary documents: openers without closers, closers without openers,
\* regions opened inside one another
FreeLines ==
  {IfOpen, EndIf, DivClose, ScriptTag, EndScript, StyleTag, EndStyle, JsBrace,
   CommentOpenLine, VerbatimTag, AttrOpenLine}

FreeDocs == SeqsUpTo(FreeLines, MaxLines)

\* Well-formed documents: every opener has its closer, every quote is closed,
\* every region is left before the next is entered.
Wrappers == {<<DivOpen, DivClose>>, <<ForOpen, EndFor>>}

RECURSIVE Wrap(_, _)
Wrap(context, inner) ==
  IF context = << >> THEN inner
  ELSE <<context[1][1]>> \o Wrap(Tail(context), inner) \o <<context[1][2]>>

Contexts == {<< >>} \cup SeqsUpTo(Wrappers, MaxContext)

\* n copies of a line
Copies(line, n) == [k \in 1..n |-> line]

\* a block: opener, body lines, closer, each on its own line; the openers are
\* those of isOpeningTag that reach the normal path (a verbatim tag is taken
\* by the verbatim rule)
BlockTags ==
  {<<IfOpen, EndIf>>, <<ForOpen, EndFor>>, <<BlockOpen, EndBlock>>,
   <<MacroOpen, EndMacro>>, <<EmbedOpen, EndEmbed>>,
   <<AutoescapeOpen, EndAutoescape>>, <<SpacelessOpen, EndSpaceless>>,
   <<TransOpen, EndTrans>>, <<ApplyOpen, EndApply>>, <<CacheOpen, EndCache>>,
   <<SandboxOpen, EndSandbox>>, <<WithOpen, EndWith>>}

SimpleBlock(tags, n) == <<tags[1]>> \o Copies(Hello, n) \o <<tags[2]>>

SimpleBlocks == {SimpleBlock(tags, n) : tags \in BlockTags, n \in 1..MaxBody}

\* if, a branch, else or elseif, a branch, endif
MidTags == {ElseTag, ElseIfTag}

IfElseBlock(mid, n, m) ==
  <<IfOpen>> \o Copies(TextX, n) \o <<mid>> \o Copies(TextY, m) \o <<EndIf>>

IfElseBlocks == {IfElseBlock(mid, n, m) : mid \in MidTags, n \in 1..MaxBody, m \in 1..MaxBody}

\* a tag whose attribute value holds a template expression
SplitTagDoc == <<DivBare, ClassLine, DivClose>>

LongTagDoc == <<AttrOpenLine, AttrCloseQuote, IdLine, DivClose>>

AttributeDocs ==
  {SplitTagDoc, LongTagDoc, <<AttrOpenLine, AttrCloseTag, DivClose>>,
   <<LinkLine, Hello, AClose>>}

\* script and style regions with balanced braces
ScriptDoc == <<ScriptTag, JsIf, JsStatement, JsElse, JsStatement, JsBrace, EndScript>>

StyleDoc == <<StyleTag, CssRule, CssDecl, JsBrace, EndStyle>>

\* a template expression inside an element, a block on one line
InlineDoc == <<InlineP>>

SingleLineBlockDoc == <<InlineIf>>

NestedDoc == <<DivOpen, ForOpen, InlineP, EndFor, DivClose>>

OtherDocs ==
  {ScriptDoc, StyleDoc, InlineDoc, SingleLineBlockDoc, NestedDoc,
   <<CommentOpenLine, CommentCloseLine>>, <<VerbatimTag, Hello, EndVerbatim>>,
   <<DivOpen, Empty, Hello, DivClose>>}

WellFormedDocs ==
  {Wrap(context, inner) :
     context \in Contexts,
     inner \in SimpleBlocks \cup IfElseBlocks \cup AttributeDocs \cup OtherDocs}

\* <a href="{{ x }}">{# note
LinkComment == <<"<","a"," ","h","r","e","f","=","\"","{","{"," ","x"," ","}","}","\"",">","{","#"," ","n","o","t","e">>

\* <script src="a.js"></script>
ScriptSrc == <<"<","s","c","r","i","p","t"," ","s","r","c","=","\"","a",".","j","s","\"",">","<","/","s","c","r","i","p","t",">">>

\* items = [{
JsOpenBoth == <<"i","t","e","m","s"," ","="," ","[","{">>

\* }];
JsCloseBoth == <<"}","]",";">>

\* a script whose body opens and closes two levels on one line
BraceDocs == {<<ScriptTag, JsOpenBoth, JsStatement, JsCloseBoth, EndScript>>}

\* markup elements by name: <name> and </name>
OpenTag(name) == <<"<">> \o name \o <<">">>

CloseTag(name) == <<"<", "/">> \o name \o <<">">>

\* div, ul, and the custom element my-card
TagNames == {<<"d","i","v">>, <<"u","l">>, <<"m","y","-","c","a","r","d">>}

\* correctly nested elements, one opening or closing tag per line: one
\* element in another, in another; two elements side by side in a third
MarkupDocs ==
  {<<OpenTag(a), OpenTag(b), OpenTag(c), CloseTag(c), CloseTag(b), CloseTag(a)>> :
     a \in TagNames, b \in TagNames, c \in {<<"d","i","v">>}}
    \cup
  {<<OpenTag(a), OpenTag(b), CloseTag(b), OpenTag(c), CloseTag(c), CloseTag(a)>> :
     a \in TagNames, b \in TagNames, c \in {<<"u","l">>}}

\* {% set x %}
SetOpen == <<"{","%"," ","s","e","t"," ","x"," ","%","}">>

\* {% endset %}
EndSet == <<"{","%"," ","e","n","d","s","e","t"," ","%","}">>

\* a set block and a verbatim block, at depth 0 and inside an if block
SetDocs ==
  {<<SetOpen, Hello, EndSet>>, <<IfOpen, SetOpen, Hello, EndSet, TextX, EndIf>>,
   <<IfOpen, VerbatimTag, Hello, EndVerbatim, TextX, EndIf>>}

\* {% if x %} {{ y }}
SpansApart == <<"{","%"," ","i","f"," ","x"," ","%","}"," ","{","{"," ","y"," ","}","}">>

\* a{{ b }}{{ c }}d{{ e }}
SpansTogether == <<"a","{","{"," ","b"," ","}","}","{","{"," ","c"," ","}","}","d","{","{"," ","e"," ","}","}">>

\* {{ a %} b }} c
MixedClosers == <<"{","{"," ","a"," ","%","}"," ","b"," ","}","}"," ","c">>

\* x {% y
OpenerAlone == <<"x"," ","{","%"," ","y">>

\* { {%%}{{}} }
EmptySpans == <<"{"," ","{","%","%","}","{","{","}","}"," ","}">>

\* hello with two spaces before and after
Padded == <<" "," ","h","e","l","l","o"," "," ">>

\* lines for splitTwigLine, each a document of its own or after an if
RunLines == {SpansApart, SpansTogether, MixedClosers, OpenerAlone, EmptySpans, Padded}

RunDocs == {<<line>> : line \in RunLines} \cup {<<IfOpen, line>> : line \in RunLines}

\* <div class="a{{ b }}c">
TightLine == <<"<","d","i","v"," ","c","l","a","s","s","=","\"","a","{","{"," ","b"," ","}","}","c","\"",">">>

\* <div class="a {{ b }}c">
TightCollapsed == <<"<","d","i","v"," ","c","l","a","s","s","=","\"","a"," ","{","{"," ","b"," ","}","}","c","\"",">">>

\* <div class="a   {{ b }}   c">
WideLine == <<"<","d","i","v"," ","c","l","a","s","s","=","\"","a"," "," "," ","{","{"," ","b"," ","}","}"," "," "," ","c","\"",">">>

\* tags whose attribute value holds a template expression with no space, or
\* several spaces, around it
ValueDocs == {<<TightLine, DivClose>>, <<WideLine, DivClose>>}

\* documents whose regions and blocks do not match up
StrayDocs ==
  {<<ElseTag, Hello>>, <<ElseIfTag, Hello, EndIf>>, <<IfOpen, EndIf, ElseTag, Hello>>,
   <<AttrOpenLine, Empty, AttrCloseTag, DivClose>>,
   <<AttrOpenLine, CommentOpenLine, AttrCloseTag>>,
   <<AttrOpenLine, VerbatimTag, AttrCloseTag>>,
   <<AttrOpenLine, ScriptTag, AttrCloseTag>>,
   <<LinkComment, IfOpen, CommentCloseLine>>,
   <<DivOpen, ScriptSrc, Hello, DivClose>>,
   <<DivOpen, EndStyle, Hello>>}

\* verbatim regions whose lines look like the start of something else
RegionDocs ==
  {<<VerbatimTag, AttrOpenLine, AttrCloseTag, EndVerbatim>>,
   <<VerbatimTag, CommentOpenLine, EndVerbatim>>,
   <<VerbatimTag, IfOpen, EndVerbatim>>}

Inputs ==
  ({<<DefaultIndentSize, FALSE, TRUE>>} \X (FreeDocs \cup StrayDocs \cup RegionDocs \cup BraceDocs \cup MarkupDocs
       \cup SetDocs \cup RunDocs \cup ValueDocs))
    \cup (Settings \X WellFormedDocs)

Init ==
  /\ \E input \in Inputs : Enter(input[1][1], input[1][2], input[1][3], input[2])
  /\ parked = << >>

Spec == Init /\ [][Next]_vars

\* the actions and the function format agree on every document
FormatAgrees ==
  pc = "done" =>
    result = format(indentSize, useTabs, preserveNewLines, Join(lines, <<"\n">>))

(***************************************************************************)
(* Two format calls.  One call runs; the other is suspended between two    *)
(* of its lines, or has not started, or has returned.                      *)
(***************************************************************************)
\* the running call: the fields of its formatter and the locals of format
Frame ==
  [state |-> State, lines |-> lines, i |-> i, splitLines |-> splitLines, t |-> t,
   pc |-> pc, result |-> result, dispatch |-> dispatch]

\* a call of format(text) that has not yet run, on a formatter of its own
\* or on one with the same settings
Called(size, tabs, preserve, document) ==
  [state |-> Fresh(size, tabs, preserve), lines |-> document, i |-> 1,
   splitLines |-> << >>, t |-> 1, pc |-> "loop", result |-> Null, dispatch |-> << >>]

\* a depth counter kept where every call finds the value the last one left
SharedDepth(frame) == [frame EXCEPT !.state.twigIndentLevel = twigIndentLevel]

\* 88-104: the state of format is declared with let inside the call, and
\* nothing is written to this: a call finds its state as it left it
OwnState(frame) == frame

\* the running call is suspended between two lines (or has returned) and the
\* other call goes on
Switch ==
  /\ parked # << >>
  /\ pc \in {"loop", "done"}
  /\ parked[1].pc # "done"
  /\ parked' = <<Frame>>
  /\ LET frame == OwnState(parked[1])
     IN  /\ Assigns(frame.state)
         /\ indentSize' = frame.state.indentSize
         /\ useTabs' = frame.state.useTabs
         /\ preserveNewLines' = frame.state.preserveNewLines
         /\ lines' = frame.lines
         /\ i' = frame.i
         /\ splitLines' = frame.splitLines
         /\ t' = frame.t
         /\ pc' = frame.pc
         /\ result' = frame.result
         /\ dispatch' = frame.dispatch

PairNext == Next \/ Switch

\* the documents of the two calls: one for every rule of the loop
PairDocs ==
  {SplitTagDoc, ScriptDoc, StyleDoc, NestedDoc, <<LinkLine, Hello, AClose>>,
   <<CommentOpenLine, CommentCloseLine>>, <<VerbatimTag, Hello, EndVerbatim>>,
   <<DivOpen, Empty, Hello, DivClose>>, <<IfOpen, AttrOpenLine, AttrCloseTag>>}

PairSettings == {<<DefaultIndentSize, FALSE, TRUE>>, <<DefaultIndentSize, TRUE, TRUE>>}

PairInit ==
  \E first \in PairDocs, second \in PairDocs, other \in PairSettings :
    /\ Enter(DefaultIndentSize, FALSE, TRUE, first)
    /\ parked = <<Called(other[1], other[2], other[3], second)>>

PairSpec == PairInit /\ [][PairNext]_vars

(***************************************************************************)
(* Reading the output.  dispatch[n].out is the number of output lines      *)
(* before input line n was taken, so that line's output starts at          *)
(* formattedLines[dispatch[n].out + 1].                                    *)
(***************************************************************************)
\* the width of one indent unit in characters
Unit == IF useTabs THEN 1 ELSE indentSize

\* the number of whitespace characters an output line starts with
Indent(text) == Len(text) - Len(TrimLeft(text))

\* input line n has been taken and processed to its end
Processed(n) == n \in 1..Len(dispatch) /\ (n < i \/ pc = "done")

\* the number of output lines before and after input line n
OutBefore(n) == dispatch[n].out

OutAfter(n) == IF n < Len(dispatch) THEN dispatch[n + 1].out ELSE Len(formattedLines)

OutCount(n) == OutAfter(n) - OutBefore(n)

\* the first output line of input line n
OutLine(n) == formattedLines[OutBefore(n) + 1]

\* input line n went down the normal path and came out as one line, itself
\* behind its indent
EmittedWhole(n) ==
  /\ dispatch[n].rule = "runs"
  /\ OutCount(n) = 1
  /\ TrimLeft(OutLine(n)) = Trim(lines[n])

(***************************************************************************)
(* C1                                                                      *)
(***************************************************************************)
\* C1: in every state format reaches, on any sequence of input lines (more
\* closers than openers included), twigIndentLevel and htmlIndentLevel are
\* both >= 0 (and so are the depths a script or style region restores).
DepthNonNegative ==
  /\ twigIndentLevel >= 0
  /\ htmlIndentLevel >= 0
  /\ scriptTagBaseIndent >= 0
  /\ styleTagBaseIndent >= 0

\* a template closer, a markup closer and a closing brace inside a script
\* region have each been processed at depth 0
ExcessClosersProcessed ==
  /\ pc = "done"
  /\ \E n \in 1..Len(lines) :
       lines[n] = EndIf /\ dispatch[n].rule = "runs" /\ dispatch[n].twig = 0
  /\ \E n \in 1..Len(lines) :
       lines[n] = DivClose /\ dispatch[n].rule = "runs" /\ dispatch[n].html = 0
  /\ DepthNonNegative
(***************************************************************************)
(* C2                                                                      *)
(***************************************************************************)
\* C2: format is idempotent on well-formed input: formatting the text that
\* format returned for a well-formed document (a tag with a multi-line
\* attribute value holding a template expression included) returns that
\* text unchanged.
FormatIdempotent ==
  pc = "done" /\ lines \in WellFormedDocs =>
    format(indentSize, useTabs, preserveNewLines, result) = result

\* the text format returned for a tag whose attribute value runs over two
\* lines and whose next attribute stands on a third is split further when it
\* is formatted again
SecondPassSplits ==
  /\ pc = "done"
  /\ lines = LongTagDoc
  /\ Len(formattedLines) = 3
  /\ Len(SplitLines(format(indentSize, useTabs, preserveNewLines, result))) = 5

(***************************************************************************)
(* C3                                                                      *)
(***************************************************************************)
\* the rules that buffer a line of a multi-line attribute value
AttributeRegionRules == {"attributeStart", "attributeContinue"}

\* C3: with preserveNewLines = TRUE, format returns as many lines as it was
\* given, the lines buffered into one attribute collapse counting as one;
\* in particular every input line outside an attribute region yields
\* exactly one output line.
LineCountPreserved ==
  pc = "done" /\ preserveNewLines /\ ~insideTwigAttribute =>
    /\ Len(formattedLines) =
         Cardinality({n \in 1..Len(lines) : dispatch[n].rule # "attributeContinue"})
    /\ \A n \in 1..Len(lines) :
         dispatch[n].rule \notin AttributeRegionRules => OutCount(n) = 1

\* one input line, an element holding a template expression, has come out
\* as three lines
OneLineBecameThree ==
  /\ pc = "done"
  /\ preserveNewLines
  /\ lines = <<InlineP>>
  /\ Len(formattedLines) = 3

(***************************************************************************)
(* C4                                                                      *)
(***************************************************************************)
\* lines a..b are a block on the normal path: an opener, one or more plain
\* body lines, its closer, each on its own line
IsSimpleBlock(a, b) ==
  /\ a + 1 < b
  /\ \E tags \in BlockTags : lines[a] = tags[1] /\ lines[b] = tags[2]
  /\ \A n \in (a + 1)..(b - 1) : lines[n] = Hello
  /\ dispatch[a].rule = "runs"

IsIfElseBlock(a, m, b) ==
  /\ a + 1 < m /\ m + 1 < b
  /\ lines[a] = IfOpen /\ lines[m] \in MidTags /\ lines[b] = EndIf
  /\ \A n \in (a + 1)..(m - 1) : lines[n] = TextX
  /\ \A n \in (m + 1)..(b - 1) : lines[n] = TextY
  /\ dispatch[a].rule = "runs"

\* C5: in an if/else/endif block with each tag on its own line, the lines of
\* the branch before the mid-block tag and those of the branch after it come
\* out at one indent, exactly one level deeper than the if, the else/elseif
\* and the endif lines, which all come out at one indent.
MidBlockIndented ==
  pc = "done" =>
    \A a \in 1..Len(lines), m \in 1..Len(lines), b \in 1..Len(lines) :
      IsIfElseBlock(a, m, b) =>
        /\ \A n \in a..b : EmittedWhole(n)
        /\ Indent(OutLine(m)) = Indent(OutLine(a))
        /\ Indent(OutLine(b)) = Indent(OutLine(a))
        /\ \A n \in ((a + 1)..(b - 1)) \ {m} :
             Indent(OutLine(n)) = Indent(OutLine(a)) + Unit

\* an if/else/endif block inside an element has been formatted
MidBlockFormatted ==
  /\ pc = "done"
  /\ lines = <<DivOpen, IfOpen, TextX, ElseTag, TextY, EndIf, DivClose>>
  /\ IsIfElseBlock(2, 4, 6)
  /\ Indent(OutLine(3)) = 2 * Unit
  /\ Indent(OutLine(5)) = 2 * Unit
(***************************************************************************)
(* C6                                                                      *)
(***************************************************************************)
\* twigIndentLevel after input line n
TwigAfter(n) == IF n < Len(dispatch) THEN dispatch[n + 1].twig ELSE twigIndentLevel

\* C6: an input line holding a template opener and its matching closer
\* ({% if x %}y{% endif %}) yields exactly one output line, at the indent
\* of its surroundings, and leaves twigIndentLevel as it found it.
SingleLineBlockKept ==
  \A n \in 1..Len(dispatch) :
    (Processed(n) /\ lines[n] = InlineIf /\ dispatch[n].rule = "runs") =>
      /\ OutCount(n) = 1
      /\ Indent(OutLine(n)) = (dispatch[n].twig + dispatch[n].html) * Unit
      /\ TwigAfter(n) = dispatch[n].twig

\* the single-line block has come out as three lines, its text one unit deeper
SingleLineBlockSplit ==
  /\ pc = "done"
  /\ lines = <<InlineIf>>
  /\ formattedLines = <<IfOpen, indentChar(State) \o <<"y">>, EndIf>>
  /\ twigIndentLevel = 0

(***************************************************************************)
(* C7                                                                      *)
(***************************************************************************)
\* C7: for the lines <div>, {% for i in items %}, <p>{{ i }}</p>,
\* {% endfor %}, </div> the <div>, {% for %} and </div> lines come out at one
\* indent, the <p> line two levels deeper, and {{ i }} stays on the line of
\* its <p>.
NestedScenarioKept ==
  pc = "done" /\ lines = NestedDoc =>
    /\ Len(formattedLines) = Len(lines)
    /\ \A n \in 1..Len(lines) : TrimLeft(formattedLines[n]) = lines[n]
    /\ Indent(formattedLines[2]) = Indent(formattedLines[1])
    /\ Indent(formattedLines[5]) = Indent(formattedLines[1])
    /\ Indent(formattedLines[3]) = Indent(formattedLines[1]) + 2 * Unit

\* the scenario has come out as seven lines: {% for %} one unit deeper than
\* <div>, <p> two units deeper, {{ i }} on a line of its own three units deeper
NestedScenarioSplit ==
  /\ pc = "done"
  /\ lines = NestedDoc
  /\ Len(formattedLines) = 7
  /\ Indent(formattedLines[2]) = Indent(formattedLines[1]) + Unit
  /\ Indent(formattedLines[3]) = Indent(formattedLines[1]) + 2 * Unit
  /\ TrimLeft(formattedLines[4]) = splitTwigLine(InlineP)[2]
  /\ Indent(formattedLines[4]) = Indent(formattedLines[1]) + 3 * Unit

(***************************************************************************)
(* C8                                                                      *)
(***************************************************************************)
\* the rules that take a line when no region (comment, verbatim, script,
\* style, attribute) is open
NormalRules == {"runs", "attributeStart", "attributeSingle"}

\* C8: a tag whose attribute value with a template expression stands on the
\* line after the tag name (<div, then class="a {{ b }} c">) comes out as
\* the one line <div class="a {{ b }} c">.
SplitTagCollapsed ==
  pc = "done" =>
    \A n \in 1..(Len(lines) - 1) :
      (lines[n] = DivBare /\ lines[n + 1] = ClassLine /\ dispatch[n].rule \in NormalRules) =>
        /\ OutAfter(n + 1) - OutBefore(n) = 1
        /\ TrimLeft(OutLine(n)) = DivCollapsed

\* the two lines of the tag have come out as four, none of them collapsed
SplitTagNotCollapsed ==
  /\ pc = "done"
  /\ lines = SplitTagDoc
  /\ dispatch[1].rule = "runs" /\ dispatch[2].rule = "runs"
  /\ OutAfter(2) - OutBefore(1) = 4
  /\ formattedLines[1] = DivBare

(***************************************************************************)
(* C9                                                                      *)
(***************************************************************************)
\* lines of a script or style body: those that open a block, those that
\* close one, those that do neither
BlockOpeningLines == {JsIf, JsElse, CssRule}

BlockClosingLines == {JsElse, JsBrace}

BraceFreeLines == {JsStatement, CssDecl}

\* line b closes the block that line a opened, inside one region
ClosesBlockOf(a, b) ==
  /\ a < b
  /\ lines[a] \in BlockOpeningLines /\ lines[b] \in BlockClosingLines
  /\ \A n \in (a + 1)..(b - 1) : lines[n] \in BraceFreeLines
  /\ \A n \in a..b : dispatch[n].rule = "body"

\* C9: inside a script or style region with balanced braces, a line holding
\* the closing brace of a block (} else { included) comes out at the indent
\* of the line that opened the block.
ClosingBraceAligned ==
  pc = "done" =>
    \A a \in 1..Len(lines), b \in 1..Len(lines) :
      ClosesBlockOf(a, b) => Indent(OutLine(b)) = Indent(OutLine(a))

\* } else { has come out one unit deeper than the if (a) { it closes
ElseBraceDeeper ==
  /\ pc = "done"
  /\ lines = ScriptDoc
  /\ ClosesBlockOf(2, 4)
  /\ Indent(OutLine(4)) = Indent(OutLine(2)) + Unit

(***************************************************************************)
(* C10                                                                     *)
(***************************************************************************)
\* the mode flags of format
ModeFlags == <<inComment, inVerbatim, inScriptTag, inStyleTag, insideTwigAttribute>>

\* C10: in every state format reaches at most one of inComment, inVerbatim,
\* inScriptTag, inStyleTag, insideTwigAttribute is set; in particular
\* inScriptTag and inStyleTag are never both set.
OneModeAtATime == Cardinality({k \in 1..Len(ModeFlags) : ModeFlags[k]}) <= 1

\* a style tag inside a script region: both region flags are set
ScriptAndStyleOpen == inScriptTag /\ inStyleTag
(***************************************************************************)
(* C11                                                                     *)
(***************************************************************************)
\* one tab when useTabs is set, indentSize spaces otherwise
IndentUnit == IF useTabs THEN <<"\t">> ELSE [k \in 1..indentSize |-> " "]

\* C11: every non-blank line of the output is the indent unit repeated
\* (twigIndentLevel + htmlIndentLevel) times, the depths being those at the
\* moment the line was pushed, followed by a text with no whitespace at
\* either end; the unit is one tab under useTabs, indentSize spaces otherwise.
IndentMatchesDepth ==
  /\ Len(emitted) = Len(formattedLines)
  /\ \A n \in 1..Len(formattedLines) :
       formattedLines[n] # << >> =>
         LET text == TrimLeft(formattedLines[n])
         IN  /\ formattedLines[n] =
                  Repeat(IndentUnit, emitted[n].twig + emitted[n].html) \o text
             /\ text # << >>
             /\ Trim(text) = text

\* under tabs, a line has been pushed inside an element and a block: at
\* template depth 1 and markup depth 1, behind two tabs
PushedAtBothDepths ==
  /\ pc = "done"
  /\ useTabs
  /\ lines = NestedDoc
  /\ emitted[3] = [twig |-> 1, html |-> 1]
  /\ formattedLines[3] = <<"\t", "\t", "<", "p", ">">>
(***************************************************************************)
(* C12                                                                     *)
(***************************************************************************)
\* The line at the head of the loop is taken by one of the rules of the loop
\* body: the conditions of the rules, in the order of the code (114-271)
LineHasRule ==
  /\ AtLine
  /\ \/ insideTwigAttribute
     \/ attrMatch(lines[i]) # Null
     \/ Test(SingleLineAttrRe, lines[i])
     \/ Trim(lines[i]) = << >>
     \/ inComment \/ opensComment(Trim(lines[i]))
     \/ inVerbatim \/ opensVerbatim(Trim(lines[i]))
     \/ isScriptOpening(Trim(lines[i])) \/ isStyleOpening(Trim(lines[i]))
     \/ isScriptClosing(Trim(lines[i])) \/ isStyleClosing(Trim(lines[i]))
     \/ inScriptTag \/ inStyleTag
     \/ PastScriptTags(lines[i])

\* format can go on: a line to take, a run to process, or the return
CanStep ==
  \/ LineHasRule
  \/ pc = "runs" /\ t <= Len(splitLines)
  \/ pc = "loop" /\ i > Len(lines)

\* where format stands: the line, the loop it is in, the run
Position == <<i, CASE pc = "loop" -> 0 [] pc = "runs" -> 1 [] pc = "done" -> 2, t>>

\* the lexicographic order on positions
Before(p, q) ==
  \/ p[1] < q[1]
  \/ p[1] = q[1] /\ p[2] < q[2]
  \/ p[1] = q[1] /\ p[2] = q[2] /\ p[3] < q[3]

\* the positions are bounded by the document and the runs of the line
PositionBounded ==
  /\ i \in 1..(Len(lines) + 1)
  /\ pc = "runs" => i <= Len(lines) /\ t \in 1..Len(splitLines)
  /\ Len(dispatch) = IF pc = "runs" THEN i ELSE i - 1

\* format has returned a text, every input line having been taken once
Returned ==
  /\ pc = "done"
  /\ result # Null
  /\ Len(dispatch) = Len(lines)
  /\ i = Len(lines) + 1

\* C12: format terminates and returns a string for every input text, well
\* formed or not: until it has returned there is a step to take (no line is
\* without a rule, no operation is applied to the null quote), every step
\* moves on in the document (a line is taken once, the loop over the runs
\* of a line advances) within the bounds of the document, and the state
\* with nothing left to do is the one in which the text has been returned.
FormatTerminates ==
  /\ [](pc # "done" => CanStep)
  /\ [](insideTwigAttribute => attributeQuote \in Quotes)
  /\ []PositionBounded
  /\ [][Before(Position, Position') /\ i' \in {i, i + 1}]_vars
  /\ [](pc = "done" => Returned)

\* format has returned on a document of closers without openers and an
\* attribute value that is never closed
ReturnedOnMalformed ==
  /\ Returned
  /\ lines = <<EndIf, DivClose, AttrOpenLine>>
(***************************************************************************)
(* C13                                                                     *)
(***************************************************************************)
\* the line at which the attribute region still open at the end was entered
OpenRegionStart ==
  CHOOSE n \in 1..Len(dispatch) :
    /\ dispatch[n].rule = "attributeStart"
    /\ \A m \in (n + 1)..Len(dispatch) : dispatch[m].rule = "attributeContinue"

\* C13: when a multi-line attribute region is still open at the end of the
\* document, format has returned all the same, no line from the
\* attribute-start line on is in the output, and the text returned is the
\* output of the lines before the region, as format returns it for them.
UnterminatedAttributeDropped ==
  (pc = "done" /\ insideTwigAttribute) =>
    /\ Returned
    /\ \E n \in 1..Len(lines) :
         /\ dispatch[n].rule = "attributeStart"
         /\ \A m \in (n + 1)..Len(lines) : dispatch[m].rule = "attributeContinue"
    /\ Len(formattedLines) = dispatch[OpenRegionStart].out
    /\ attributeLines = SubSeq(lines, OpenRegionStart, Len(lines))
    /\ result = format(indentSize, useTabs, preserveNewLines,
                       Join(SubSeq(lines, 1, OpenRegionStart - 1), <<"\n">>))

\* a block opener, then an attribute value opened and never closed
UnterminatedAfterOpener ==
  /\ pc = "done"
  /\ insideTwigAttribute
  /\ lines = <<IfOpen, AttrOpenLine, DivClose>>
  /\ result = IfOpen
(***************************************************************************)
(* C14                                                                     *)
(***************************************************************************)
\* what a call that runs alone from a fresh state has made of its first
\* n lines
Alone(frame, n) ==
  LinesFrom(Fresh(frame.state.indentSize, frame.state.useTabs, frame.state.preserveNewLines),
            SubSeq(frame.lines, 1, n), 1)

\* the call is where a call running alone would be, and has returned what
\* that call returns
AsAlone(frame) ==
  /\ frame.pc = "loop" => frame.state = Alone(frame, frame.i - 1)
  /\ frame.pc = "done" =>
       /\ frame.state = Alone(frame, Len(frame.lines))
       /\ frame.result = format(frame.state.indentSize, frame.state.useTabs,
                                frame.state.preserveNewLines, Join(frame.lines, <<"\n">>))

\* C14: two format calls share no mutable state: interleaved line by line
\* or run one after the other, on formatters with the same or different
\* settings, each is at every line where it would be running alone from a
\* fresh state, and returns what it returns alone.
InvocationsIndependent ==
  /\ AsAlone(Frame)
  /\ \A n \in 1..Len(parked) : AsAlone(parked[n])

\* the first call has returned its nested document while the second, on a
\* formatter using tabs, is suspended inside its script region
ReturnedWhileOtherSuspended ==
  /\ pc = "done"
  /\ lines = NestedDoc
  /\ result = format(DefaultIndentSize, FALSE, TRUE, Join(NestedDoc, <<"\n">>))
  /\ Len(parked) = 1
  /\ parked[1].lines = ScriptDoc
  /\ parked[1].pc = "loop"
  /\ parked[1].i = 4
  /\ parked[1].state.inScriptTag
  /\ parked[1].state.useTabs
(***************************************************************************)
(* C15                                                                     *)
(***************************************************************************)
\* the run about to be processed is a mid-block tag on the normal path
AtMidBlockRun ==
  /\ pc = "runs"
  /\ t <= Len(splitLines)
  /\ isMidBlockTag(Trim(splitLines[t]))
  /\ ~isTwigInsideAttribute(Trim(splitLines[t]))

\* C15: processing a mid-block run ({% else %}, {% elseif ... %}) leaves
\* twigIndentLevel as it was before the run, at every depth, 0 included.
MidBlockKeepsDepth == [][AtMidBlockRun => twigIndentLevel' = twigIndentLevel]_vars

\* the same at the depths of well-formed documents: inside a block
MidBlockKeepsDepthInBlock ==
  [][(AtMidBlockRun /\ twigIndentLevel > 0) => twigIndentLevel' = twigIndentLevel]_vars

\* an else with no block open has left the depth at 1: the text after it is
\* indented
StrayElseRaisedDepth ==
  /\ pc = "done"
  /\ lines = <<ElseTag, Hello>>
  /\ dispatch[1].twig = 0
  /\ twigIndentLevel = 1
  /\ formattedLines = <<ElseTag, IndentUnit \o Hello>>
(***************************************************************************)
(* C16                                                                     *)
(***************************************************************************)
\* the buffer with the line at the head of the loop added to it
Buffered == Append(attributeLines, lines[i])

\* the recorded quote occurs an even number of times in the buffered text
QuoteClosed == CountChars(Join(Buffered, <<"\n">>), {attributeQuote}) % 2 = 0

\* what a step does with a line that arrives while the attribute mode is on
AttributeStep ==
  (AtLine /\ insideTwigAttribute) =>
    /\ i' = i + 1
    /\ pc' = "loop"
    /\ dispatch'[i].rule = "attributeContinue"
    /\ UNCHANGED <<twigIndentLevel, htmlIndentLevel, inComment, inVerbatim,
                   inScriptTag, inStyleTag>>
    /\ IF QuoteClosed
       THEN /\ Len(formattedLines') = Len(formattedLines) + 1
            /\ SubSeq(formattedLines', 1, Len(formattedLines)) = formattedLines
            /\ ~insideTwigAttribute'
            /\ attributeLines' = << >>
            /\ attributeQuote' = Null
       ELSE /\ formattedLines' = formattedLines
            /\ insideTwigAttribute'
            /\ attributeLines' = Buffered
            /\ attributeQuote' = attributeQuote

\* C16: while the multi-line attribute mode is on, every input line (blank,
\* comment, verbatim and script lines included) is added to the buffer and
\* emits nothing, until the first line after which the recorded quote occurs
\* an even number of times in the buffered text; that line emits exactly one
\* output line, clears the buffer and the quote and leaves the mode.  The
\* buffer is non-empty and the quote recorded exactly when the mode is on.
AttributeBuffering ==
  /\ [](insideTwigAttribute <=> attributeLines # << >>)
  /\ [](insideTwigAttribute <=> attributeQuote # Null)
  /\ [](attributeQuote # Null => attributeQuote \in Quotes)
  /\ [][AttributeStep]_vars

\* a blank line was buffered and the closing line emitted the collapsed tag
BlankLineBuffered ==
  /\ pc = "done"
  /\ lines = <<AttrOpenLine, Empty, AttrCloseTag, DivClose>>
  /\ dispatch[2].rule = "attributeContinue"
  /\ dispatch[3].out = 0
  /\ dispatch[4].out = 1
  /\ formattedLines = <<DivCollapsed, DivClose>>
(***************************************************************************)
(* C17                                                                     *)
(***************************************************************************)
\* what a step does with a line that arrives while a comment or verbatim
\* region is open
RegionStep ==
  (AtLine /\ (inComment \/ inVerbatim)) =>
    /\ dispatch'[i].rule \in {"comment", "verbatim"}
    /\ ~insideTwigAttribute'
    /\ ~inScriptTag'
    /\ ~inStyleTag'
    /\ inComment' => inComment
    /\ inVerbatim' => inVerbatim

\* C17: once a comment or verbatim region is open, every line up to the one
\* that closes it is taken by the comment/verbatim rule and no other mode is
\* entered: a line of the region that looks like an attribute start, a
\* single-line attribute or a script/style tag starts nothing.
RegionsStrictlyNested == [][RegionStep]_vars

\* a line of an open comment has started attribute buffering: both modes are
\* on at the end and the rest of the document is in the buffer
AttributeStartedInComment ==
  /\ pc = "done"
  /\ lines = <<CommentOpenLine, AttrOpenLine, DivClose>>
  /\ dispatch[2].rule = "attributeStart"
  /\ inComment
  /\ insideTwigAttribute
  /\ formattedLines = <<CommentOpenLine>>
(***************************************************************************)
(* C18                                                                     *)
(***************************************************************************)
\* a non-blank line arrives that belongs to a comment region: the region is
\* open, or the line holds {#; no attribute value is being buffered
AtCommentLine ==
  /\ AtLine
  /\ ~insideTwigAttribute
  /\ Trim(lines[i]) # << >>
  /\ inComment \/ opensComment(Trim(lines[i]))

\* the line is emitted as one output line at the current indent, the depths
\* stay, and the region is open after it unless the line holds #}
CommentStep ==
  AtCommentLine =>
    /\ dispatch'[i].rule = "comment"
    /\ formattedLines' =
         Append(formattedLines,
                Repeat(IndentUnit, twigIndentLevel + htmlIndentLevel) \o Trim(lines[i]))
    /\ UNCHANGED <<twigIndentLevel, htmlIndentLevel>>
    /\ inComment' = ~Test(CommentCloseRe, Trim(lines[i]))

\* C18: a line containing {# enters the comment region, also when it holds
\* other markup or template tags; every line of the region, from the opening
\* line through the line containing #}, is emitted as one output line at the
\* current indent, and twigIndentLevel and htmlIndentLevel are the same
\* after the region as before it.
CommentRegionEmitted == [][CommentStep]_vars

\* the line with {# after an attribute holding {{ x }} was taken by the
\* single-line attribute rule: no region was opened, the if tag of the next
\* line raised the depth and the closing line came out as indented text
CommentNotEntered ==
  /\ pc = "done"
  /\ lines = <<LinkComment, IfOpen, CommentCloseLine>>
  /\ dispatch[1].rule = "attributeSingle"
  /\ dispatch[2].rule = "runs"
  /\ dispatch[3].rule = "runs"
  /\ twigIndentLevel = 1
  /\ formattedLines = <<LinkComment, IfOpen, IndentUnit \o CommentCloseLine>>
(***************************************************************************)
(* C19                                                                     *)
(***************************************************************************)
\* a non-blank line arrives that belongs to a verbatim region: the region is
\* open, or the line is {% verbatim %}; no attribute value is being buffered
\* and no comment is open
AtVerbatimLine ==
  /\ AtLine
  /\ ~insideTwigAttribute
  /\ ~inComment
  /\ Trim(lines[i]) # << >>
  /\ inVerbatim \/ opensVerbatim(Trim(lines[i]))

\* the line is emitted whole as one output line at the indent of the region,
\* the depths stay, and the region is open after it unless the line is
\* {% endverbatim %}
VerbatimStep ==
  AtVerbatimLine =>
    /\ dispatch'[i].rule = "verbatim"
    /\ formattedLines' =
         Append(formattedLines,
                Repeat(IndentUnit, twigIndentLevel + htmlIndentLevel) \o Trim(lines[i]))
    /\ UNCHANGED <<twigIndentLevel, htmlIndentLevel>>
    /\ inVerbatim' = ~Test(EndVerbatimRe, Trim(lines[i]))

\* C19: from a {% verbatim %} line through the matching {% endverbatim %}
\* line, every non-blank line is emitted as one output line at the indent in
\* force when the region opened, without being split into runs or
\* classified, and twigIndentLevel and htmlIndentLevel are unchanged when
\* the region has closed.
VerbatimRegionEmitted == [][VerbatimStep]_vars

\* two lines of a verbatim region were buffered as an attribute value and
\* came out as one collapsed line
VerbatimLinesCollapsed ==
  /\ pc = "done"
  /\ lines = <<VerbatimTag, AttrOpenLine, AttrCloseTag, EndVerbatim>>
  /\ dispatch[1].rule = "verbatim"
  /\ dispatch[2].rule = "attributeStart"
  /\ dispatch[3].rule = "attributeContinue"
  /\ formattedLines = <<VerbatimTag, DivCollapsed, EndVerbatim>>
(***************************************************************************)
(* C20                                                                     *)
(***************************************************************************)
\* the line that opened the script (style) region that is open now
OpenedAt(rule) ==
  CHOOSE a \in 1..Len(dispatch) :
    /\ dispatch[a].rule = rule
    /\ \A m \in (a + 1)..Len(dispatch) : dispatch[m].rule # rule

\* the closing-tag line of the open script region arrives, no style region
\* being open around it or inside it
AtScriptClosing ==
  /\ AtLine
  /\ inScriptTag
  /\ ~inStyleTag
  /\ isScriptClosing(Trim(lines[i]))
  /\ ~isScriptOpening(Trim(lines[i]))
  /\ ~isStyleOpening(Trim(lines[i]))

\* the closing-tag line of the open style region arrives, no script region
\* being open around it or inside it
AtStyleClosing ==
  /\ AtLine
  /\ inStyleTag
  /\ ~inScriptTag
  /\ isStyleClosing(Trim(lines[i]))
  /\ ~isScriptOpening(Trim(lines[i]))
  /\ ~isStyleOpening(Trim(lines[i]))
  /\ ~isScriptClosing(Trim(lines[i]))

\* the closing line is emitted at the indent of the line that opened the
\* region, htmlIndentLevel is what it was before that line, and no mode is
\* left on
ClosedAsOpened(open) ==
  /\ formattedLines' =
       Append(formattedLines,
              Repeat(IndentUnit, dispatch[open].twig + dispatch[open].html) \o Trim(lines[i]))
  /\ htmlIndentLevel' = dispatch[open].html
  /\ ~inScriptTag' /\ ~inStyleTag' /\ ~inComment' /\ ~inVerbatim' /\ ~insideTwigAttribute'

ScriptStyleCloseStep ==
  /\ AtScriptClosing => ClosedAsOpened(OpenedAt("scriptOpen"))
  /\ AtStyleClosing => ClosedAsOpened(OpenedAt("styleOpen"))

\* C20: for a script (or style) region opened by an opening-tag line and
\* closed by its closing-tag line, whatever the body lines in between, the
\* closing line is emitted at the indent of the opening line,
\* htmlIndentLevel after the closing line is htmlIndentLevel before the
\* opening line, and no mode is on after the closing line.
ScriptStyleRestored == [][ScriptStyleCloseStep]_vars

\* the same when, at the closing line, no comment, verbatim or attribute
\* region has been opened by a body line
ScriptStyleRestoredOutsideRegions ==
  [][(~inComment /\ ~inVerbatim /\ ~insideTwigAttribute) => ScriptStyleCloseStep]_vars

\* a body line of the script holding {# opened a comment: the closing tag
\* was emitted as a comment line, one level deeper than the opening tag,
\* and the script region and the depth are still there at the end
ScriptNeverClosed ==
  /\ pc = "done"
  /\ lines = <<ScriptTag, CommentOpenLine, EndScript>>
  /\ dispatch[3].rule = "comment"
  /\ formattedLines = <<ScriptTag, IndentUnit \o CommentOpenLine, IndentUnit \o EndScript>>
  /\ inScriptTag
  /\ inComment
  /\ htmlIndentLevel = 1
(***************************************************************************)
(* C21                                                                     *)
(***************************************************************************)
\* a line holding a closing script or style tag arrives while no region of
\* any kind is open: a tag opened and closed on the line, or a stray closer
AtClosingTagOutsideRegion ==
  /\ AtLine
  /\ ~inScriptTag /\ ~inStyleTag
  /\ PastVerbatim(lines[i])
  /\ isScriptClosing(Trim(lines[i])) \/ isStyleClosing(Trim(lines[i]))
  /\ ~isScriptOpening(Trim(lines[i]))
  /\ ~isStyleOpening(Trim(lines[i]))

\* C21: a line that holds both the opening and the closing script (or
\* style) tag, or a closing script/style tag met when no such region is
\* open, is emitted at the current indent and leaves htmlIndentLevel as it
\* was, at whatever depth it occurs.
ClosingTagOutsideRegionKeepsDepth ==
  [][AtClosingTagOutsideRegion =>
       /\ htmlIndentLevel' = htmlIndentLevel
       /\ formattedLines' =
            Append(formattedLines,
                   Repeat(IndentUnit, twigIndentLevel + htmlIndentLevel) \o Trim(lines[i]))]_vars

\* the script element on one line inside a div came out at indent 0 and
\* took the text after it and the depth back to 0
OneLineScriptResetDepth ==
  /\ pc = "done"
  /\ lines = <<DivOpen, ScriptSrc, Hello, DivClose>>
  /\ dispatch[2].rule = "scriptClose"
  /\ dispatch[2].html = 1
  /\ dispatch[3].html = 0
  /\ formattedLines = <<DivOpen, ScriptSrc, Hello, DivClose>>
(***************************************************************************)
(* C22                                                                     *)
(***************************************************************************)
\* a body line of a script or style region arrives
AtBodyLine ==
  /\ AtLine
  /\ inScriptTag \/ inStyleTag
  /\ PastScriptTags(lines[i])

\* the number of times one of the characters occurs in the text
Occurrences(text, chars) == Cardinality({n \in 1..Len(text) : text[n] \in chars})

\* d = (#'{' + #'[') - (#'}' + #']') of the line at the head of the loop
Delta == Occurrences(lines[i], {"{", "["}) - Occurrences(lines[i], {"}", "]"})

\* the depth a body line is emitted at, and the depth it leaves
BodyEmitDepth == IF Delta < 0 THEN (IF htmlIndentLevel + Delta < 0 THEN 0 ELSE htmlIndentLevel + Delta)
                 ELSE htmlIndentLevel

BodyDepthAfter == IF Delta > 0 THEN htmlIndentLevel + Delta ELSE BodyEmitDepth

\* C22: a body line of a script/style region with net delta d and
\* htmlIndentLevel m before it is emitted at max(0, m + d), which is kept,
\* when d < 0; at m, after which the depth is m + d, when d > 0; at m, which
\* stays, when d = 0.  twigIndentLevel is not touched.
BodyLineFollowsDelta ==
  [][AtBodyLine =>
       /\ dispatch'[i].rule = "body"
       /\ formattedLines' =
            Append(formattedLines,
                   Repeat(IndentUnit, twigIndentLevel + BodyEmitDepth) \o Trim(lines[i]))
       /\ htmlIndentLevel' = BodyDepthAfter
       /\ twigIndentLevel' = twigIndentLevel]_vars

\* a body that goes two levels down on one line and two levels up on another
TwoLevelsOnOneLine ==
  /\ pc = "done"
  /\ lines = <<ScriptTag, JsOpenBoth, JsStatement, JsCloseBoth, EndScript>>
  /\ dispatch[3].html = 3
  /\ dispatch[5].html = 1
  /\ formattedLines =
       <<ScriptTag, IndentUnit \o JsOpenBoth, Repeat(IndentUnit, 3) \o JsStatement,
         IndentUnit \o JsCloseBoth, EndScript>>

\* a closing brace with nothing open around the body: the depth stops at 0
BodyDepthClamped ==
  /\ pc = "done"
  /\ lines = <<ScriptTag, JsBrace, JsBrace>>
  /\ dispatch[3].html = 0
  /\ htmlIndentLevel = 0
(***************************************************************************)
(* C23                                                                     *)
(***************************************************************************)
\* one of the modes is on
InSomeMode ==
  insideTwigAttribute \/ inComment \/ inVerbatim \/ inScriptTag \/ inStyleTag

\* the line at the head of the loop is blank, or opens or closes a script or
\* style region
AtBlankOrTagLine ==
  \/ Trim(lines[i]) = << >>
  \/ PastVerbatim(lines[i]) /\
       (\/ isScriptOpening(Trim(lines[i])) \/ isStyleOpening(Trim(lines[i]))
        \/ isScriptClosing(Trim(lines[i])) \/ isStyleClosing(Trim(lines[i])))

\* C23: twigIndentLevel changes only when a run is processed on the normal
\* path: a line taken while the attribute, comment, verbatim, script or
\* style mode is on, a blank line, and a script/style opening or closing
\* line are not split into runs and leave twigIndentLevel as it was.
TwigDepthOnlyByRuns ==
  [][/\ twigIndentLevel' # twigIndentLevel => (pc = "runs" /\ ~InSomeMode)
     /\ (AtLine /\ (InSomeMode \/ AtBlankOrTagLine)) =>
          (pc' = "loop" /\ i' = i + 1 /\ twigIndentLevel' = twigIndentLevel)]_vars

\* {% endif %} in the body of a script inside an if block was emitted as a
\* body line and closed nothing
EndIfInScriptBody ==
  /\ pc = "done"
  /\ lines = <<IfOpen, ScriptTag, EndIf>>
  /\ dispatch[3].rule = "body"
  /\ dispatch[3].twig = 1
  /\ twigIndentLevel = 1
  /\ formattedLines = <<IfOpen, IndentUnit \o ScriptTag, Repeat(IndentUnit, 2) \o EndIf>>
(***************************************************************************)
(* C24                                                                     *)
(***************************************************************************)
\* line n of a document of MarkupDocs is a closing tag
IsClosingLine(n) == lines[n][2] = "/"

\* the number of elements open around line n: the opening tags before it
\* that no closing tag before it has closed; a closing tag stands where its
\* opening tag stands
NestingDepth(n) ==
  Cardinality({m \in 1..(n - 1) : ~IsClosingLine(m)})
    - Cardinality({m \in 1..(n - 1) : IsClosingLine(m)})
    - (IF IsClosingLine(n) THEN 1 ELSE 0)

\* every line is emitted at the depth of its nesting and the depth is 0 at
\* the end
NestingFollowed ==
  /\ Len(formattedLines) = Len(lines)
  /\ \A n \in 1..Len(lines) :
       formattedLines[n] = Repeat(IndentUnit, NestingDepth(n)) \o lines[n]
  /\ htmlIndentLevel = 0

\* C24: for a correctly nested sequence of markup tags with one opening or
\* closing tag per line, every closing tag is emitted at the indent of its
\* opening tag, every opening tag one level deeper than its parent, and
\* htmlIndentLevel is 0 at the end of the document.
MarkupNestingIndented ==
  (pc = "done" /\ lines \in MarkupDocs) => NestingFollowed

\* element names made of letters and digits
PlainNames == {<<"d","i","v">>, <<"u","l">>}

\* the same for elements whose names are made of letters and digits
PlainMarkupNestingIndented ==
  (/\ pc = "done"
   /\ lines \in MarkupDocs
   /\ \A n \in 1..Len(lines) : \E name \in PlainNames : lines[n] \in {OpenTag(name), CloseTag(name)})
    => NestingFollowed

\* the elements inside <my-card> came out at the indent of <my-card>
CustomElementNotIndented ==
  /\ pc = "done"
  /\ lines = <<OpenTag(<<"m","y","-","c","a","r","d">>), DivOpen, DivClose, OpenTag(<<"u","l">>),
               CloseTag(<<"u","l">>), CloseTag(<<"m","y","-","c","a","r","d">>)>>
  /\ formattedLines = lines
  /\ dispatch[2].html = 0
(***************************************************************************)
(* C25                                                                     *)
(***************************************************************************)
\* the line at the head of the loop goes to one of the attribute rules
AtAttributeLine ==
  /\ AtLine
  /\ \/ insideTwigAttribute
     \/ attrMatch(lines[i]) # Null
     \/ Test(SingleLineAttrRe, lines[i])

\* the line is taken by an attribute rule and the depths stay
AttributeLineStep ==
  AtAttributeLine =>
    /\ dispatch'[i].rule \in {"attributeContinue", "attributeStart", "attributeSingle"}
    /\ UNCHANGED <<twigIndentLevel, htmlIndentLevel>>

\* what is emitted for an attribute line, and the text after it, are at the
\* indent in force before the line
AfterAttributeLine ==
  \A n \in 1..Len(dispatch) :
    (dispatch[n].rule \in AttributeRegionRules \cup {"attributeSingle"} /\ Processed(n)) =>
      /\ \A k \in (OutBefore(n) + 1)..OutAfter(n) :
           emitted[k] = [twig |-> dispatch[n].twig, html |-> dispatch[n].html]
      /\ (n < Len(dispatch) /\ Processed(n + 1) /\ lines[n + 1] = Hello) =>
           formattedLines[OutBefore(n + 1) + 1] =
             Repeat(IndentUnit, dispatch[n].twig + dispatch[n].html) \o Hello

\* C25: a line handled by one of the attribute rules (start of a multi-line
\* attribute value, continuation of one, single-line attribute holding a
\* template expression) leaves twigIndentLevel and htmlIndentLevel
\* unchanged, also when it is a markup opening or closing tag: the lines
\* after an opening tag whose attribute holds a template expression are
\* emitted at the indent of that tag.
AttributeLinesKeepDepths ==
  /\ [][AttributeLineStep]_vars
  /\ []AfterAttributeLine

\* the text inside <a href="{{ x }}"> stands at the indent of the tag
TextAtIndentOfLink ==
  /\ pc = "done"
  /\ lines = <<DivOpen, LinkLine, Hello, AClose, DivClose>>
  /\ dispatch[2].rule = "attributeSingle"
  /\ formattedLines =
       <<DivOpen, IndentUnit \o LinkLine, IndentUnit \o Hello, AClose, DivClose>>
(***************************************************************************)
(* C26                                                                     *)
(***************************************************************************)
\* the block kinds whose closer isClosingTag knows: the twelve of BlockTags,
\* set and verbatim
ClosedBlockTags == BlockTags \cup {<<SetOpen, EndSet>>, <<VerbatimTag, EndVerbatim>>}

\* lines a..b are a block of the kind tags: its opener, body lines free of
\* template tags, its closer, each on its own line, met with no mode on
IsBlockOfKind(tags, a, b) ==
  /\ a + 1 < b
  /\ lines[a] = tags[1] /\ lines[b] = tags[2]
  /\ \A n \in (a + 1)..(b - 1) : lines[n] = Hello
  /\ dispatch[a].rule \in {"runs", "verbatim"}

\* twigIndentLevel after the closer is twigIndentLevel before the opener
BlockKeepsDepth(tags) ==
  pc = "done" =>
    \A a \in 1..Len(lines), b \in 1..Len(lines) :
      IsBlockOfKind(tags, a, b) => TwigAfter(b) = dispatch[a].twig

\* C26: for every block kind X whose closer endX is a template closing tag,
\* a region opened by a {% X ... %} line and closed by a {% endX %} line,
\* each on its own line with a body free of template tags, leaves
\* twigIndentLevel after the closer equal to its value before the opener, at
\* any starting depth.
EveryBlockKeepsDepth == \A tags \in ClosedBlockTags : BlockKeepsDepth(tags)

\* the same for every kind but set
EveryBlockButSetKeepsDepth ==
  \A tags \in ClosedBlockTags \ {<<SetOpen, EndSet>>} : BlockKeepsDepth(tags)

\* a set block inside an if block has closed the if block: the text after
\* it and the endif stand at depth 0
SetBlockClosedIf ==
  /\ pc = "done"
  /\ lines = <<IfOpen, SetOpen, Hello, EndSet, TextX, EndIf>>
  /\ IsBlockOfKind(<<SetOpen, EndSet>>, 2, 4)
  /\ dispatch[2].twig = 1
  /\ dispatch[5].twig = 0
  /\ formattedLines =
       <<IfOpen, IndentUnit \o SetOpen, IndentUnit \o Hello, EndSet, TextX, EndIf>>
(***************************************************************************)
(* C27                                                                     *)
(***************************************************************************)
\* the characters s..e of the line are {% ... %} or {{ ... }}
IsSpan(line, s, e) ==
  /\ 1 <= s /\ s + 3 <= e /\ e <= Len(line)
  /\ line[s] = "{" /\ line[e] = "}"
  /\ \/ line[s + 1] = "%" /\ line[e - 1] = "%"
     \/ line[s + 1] = "{" /\ line[e - 1] = "}"

\* the positions at or after from where a span starts
SpanStarts(line, from) ==
  {s \in from..Len(line) : \E e \in s..Len(line) : IsSpan(line, s, e)}

\* the line from position from on, cut into the leftmost shortest spans and
\* the text before, between and after them
RECURSIVE Segments(_, _)
Segments(line, from) ==
  IF from > Len(line) THEN << >>
  ELSE IF SpanStarts(line, from) = {} THEN <<SubSeq(line, from, Len(line))>>
  ELSE LET s == Min(SpanStarts(line, from))
           e == Min({k \in s..Len(line) : IsSpan(line, s, k)})
       IN  (IF s > from THEN <<SubSeq(line, from, s - 1)>> ELSE << >>)
             \o <<SubSeq(line, s, e)>> \o Segments(line, e + 1)

IsWhitespaceOnly(s) == \A k \in 1..Len(s) : s[k] \in WhiteSpace

\* the segments that are not whitespace only, in their order
RECURSIVE WithoutWhitespaceOnly(_)
WithoutWhitespaceOnly(segments) ==
  IF segments = << >> THEN << >>
  ELSE (IF IsWhitespaceOnly(Head(segments)) THEN << >> ELSE <<Head(segments)>>)
         \o WithoutWhitespaceOnly(Tail(segments))

\* the runs one after the other
RECURSIVE Concatenated(_)
Concatenated(runs) ==
  IF runs = << >> THEN << >> ELSE Head(runs) \o Concatenated(Tail(runs))

\* the runs are what the claim says of the line
RunsOf(line, runs) ==
  /\ runs = WithoutWhitespaceOnly(Segments(line, 1))
  /\ Concatenated(Segments(line, 1)) = line
  /\ Concatenated(runs) = Concatenated(WithoutWhitespaceOnly(Segments(line, 1)))
  /\ \A k \in 1..Len(runs) : ~IsWhitespaceOnly(runs[k])

\* C27: splitTwigLine(line) returns the runs of the line from left to
\* right: every {% ... %} or {{ ... }} span found by the leftmost
\* non-overlapping shortest match is a run of its own, the text before,
\* between and after the spans forms the other runs, whitespace-only runs
\* are dropped, and the runs put together are the line without the dropped
\* whitespace-only segments.
SplitGivesRuns ==
  /\ pc = "runs" => RunsOf(lines[i], splitLines)
  /\ (pc = "loop" /\ i = 1) =>
       \A n \in 1..Len(lines) : RunsOf(lines[n], splitTwigLine(lines[n]))

\* the loop over the runs of {% if x %} {{ y }}: two runs, the space between
\* the spans is gone
SpaceBetweenSpansDropped ==
  /\ pc = "runs"
  /\ lines[i] = SpansApart
  /\ splitLines = <<IfOpen, <<"{","{"," ","y"," ","}","}">>>>

(***************************************************************************)
(* C28                                                                     *)
(***************************************************************************)
\* C28: re-splitting is a no-op: for every line and every run r of
\* splitTwigLine(line), splitTwigLine(r) is the one-element sequence <<r>>.
ResplitIsNoOp ==
  /\ pc = "runs" =>
       \A k \in 1..Len(splitLines) : splitTwigLine(splitLines[k]) = <<splitLines[k]>>
  /\ (pc = "loop" /\ i = 1) =>
       \A n \in 1..Len(lines) :
         \A k \in 1..Len(splitTwigLine(lines[n])) :
           splitTwigLine(splitTwigLine(lines[n])[k]) = <<splitTwigLine(lines[n])[k]>>

\* the loop over the five runs of a{{ b }}{{ c }}d{{ e }}, the run d between
\* two spans among them
FiveRunsSplit ==
  /\ pc = "runs"
  /\ lines[i] = SpansTogether
  /\ Len(splitLines) = 5
  /\ splitLines[4] = <<"d">>
  /\ splitTwigLine(splitLines[4]) = <<splitLines[4]>>
(***************************************************************************)
(* C29                                                                     *)
(***************************************************************************)
\* a template block opens at position p of the text, ends at position p
OpensAt(text, p) == p < Len(text) /\ text[p] = "{" /\ text[p + 1] \in {"{", "%"}

ClosesAt(text, p) == p > 1 /\ text[p] = "}" /\ text[p - 1] \in {"}", "%"}

\* the block that opens at p has no attribute text right before it, and not
\* two spaces; the block that ends at p has no attribute text right after
\* it, and not two spaces
OneSpaceBefore(text, p) ==
  /\ p > 1 => text[p - 1] \notin LetterDigit
  /\ p > 2 => ~(text[p - 1] = " " /\ text[p - 2] = " ")

OneSpaceAfter(text, p) ==
  /\ p < Len(text) => text[p + 1] \notin LetterDigit
  /\ p + 1 < Len(text) => ~(text[p + 1] = " " /\ text[p + 2] = " ")

\* every template block of the text is one space away from the attribute
\* text on either side of it
WellSpaced(text) ==
  \A p \in 1..Len(text) :
    /\ OpensAt(text, p) => OneSpaceBefore(text, p)
    /\ ClosesAt(text, p) => OneSpaceAfter(text, p)

\* what the attribute rules emitted for line n: the result of
\* collapseTwigAttribute behind its indent
Collapsed(n) == TrimLeft(OutLine(n))

\* C29: for every attribute value holding template expressions,
\* collapseTwigAttribute returns one line in which each template block is
\* separated from the attribute text next to it by exactly one space on
\* each side, whatever whitespace, or none, was around it in the input.
CollapsedWellSpaced ==
  pc = "done" =>
    \A n \in 1..Len(lines) :
      (dispatch[n].rule \in {"attributeSingle", "attributeContinue"} /\ OutCount(n) = 1) =>
        /\ dispatch[n].rule = "attributeSingle" =>
             Collapsed(n) = collapseTwigAttribute(<<lines[n]>>)
        /\ \A k \in 1..Len(Collapsed(n)) : Collapsed(n)[k] # "\n"
        /\ WellSpaced(Collapsed(n))

\* class="a{{ b }}c" came out as class="a {{ b }}c": a space before the
\* block, none after it
NoSpaceAfterBlock ==
  /\ pc = "done"
  /\ lines = <<TightLine, DivClose>>
  /\ dispatch[1].rule = "attributeSingle"
  /\ formattedLines[1] = TightCollapsed
  /\ formattedLines[1] = collapseTwigAttribute(<<TightLine>>)
  /\ ~WellSpaced(formattedLines[1])

\* class="a   {{ b }}   c" came out with one space on each side
WideValueCollapsed ==
  /\ pc = "done"
  /\ lines = <<WideLine, DivClose>>
  /\ formattedLines[1] = DivCollapsed
  /\ WellSpaced(formattedLines[1])
\* the same on the documents in which whitespace stands on both sides of
\* every block (all but the one with class="a{{ b }}c")
SpacedInputsCollapsedWellSpaced ==
  lines # <<TightLine, DivClose>> => CollapsedWellSpaced
=============================================================================
